---- MODULE Spec2Model ----
(***************************************************************************)
(* A model of the baostock orchestration layer: the BaoStockConnection     *)
(* singleton, the three data-source adapters, the factory, the fallback    *)
(* manager and the query classes' connection, batch and history loops.     *)
(* Strings that the code inspects character by character (stock codes,     *)
(* data-source names) are sequences of one-character strings.              *)
(***************************************************************************)
EXTENDS Integers, Sequences, FiniteSets, TLC

VARIABLES
    nc_input,       \* normalize_code: the spelling handed to the adapters
    nc_result,      \* normalize_code: per adapter << >> before the call, << code >> after
    cls_instance,   \* BaoStockConnection._instance: 0 for None, else the object
    heap_count,     \* number of BaoStockConnection objects ever allocated
    is_logged_in,   \* _is_logged_in of each allocated BaoStockConnection object
    refs,           \* the objects that BaoStockConnection() has returned so far
    n_constructed,  \* number of BaoStockConnection() calls so far
    bs_session,     \* the vendor's process-wide session: TRUE when logged in
    ds_connected,   \* _is_connected of each data source instance
    ts_token,       \* config of the Tushare data source: TRUE when a token is set
    ts_api,         \* TushareDataSource.api: None, "pro" or "free"
    with_pc,        \* the `with BaoStockConnection():` block: outside, body, exited
    with_obj,       \* the object the with statement is managing, 0 outside
    with_exit,      \* what the last exit of the with block did
    last_call,      \* what the last query call did
    installed,      \* the optional vendor packages that can be imported
    f_call,         \* DataSourceFactory: the last create call and what it gave
    m_config,       \* DataSourceManager: default_source_type and fallback_sources
    m_ds,           \* DataSourceManager.datasources, per data source type
    m_run,          \* DataSourceManager.query_with_fallback in progress
    m_order,        \* the keys of DataSourceManager.datasources, in insertion order
    m_with,         \* the `with DataSourceManager(...)` block: outside, body, exited
    m_disc,         \* what the last disconnect_all did
    b_run,          \* batch_query / query_multiple in progress
    h_run,          \* CashFlowQuery.query_history in progress
    fh_call,        \* AkShareDataSource.query_fund_holdings: the last call
    ip_call,        \* FundHoldingsQuery.analyze_institutional_preference: the last call
    cfg_call,       \* ConfigLoader: the last call
    mon_call        \* FundPreferenceMonitor: the last call

None == "None"

(***************************************************************************)
(* Python str operations, on sequences of characters.                      *)
(***************************************************************************)
LowerCase == << "a","b","c","d","e","f","g","h","i","j","k","l","m",
                "n","o","p","q","r","s","t","u","v","w","x","y","z" >>
UpperCase == << "A","B","C","D","E","F","G","H","I","J","K","L","M",
                "N","O","P","Q","R","S","T","U","V","W","X","Y","Z" >>

IsSpace(c) == c \in {" ", "\t", "\n"}

lower_char(c) ==
    IF \E i \in 1..Len(UpperCase) : UpperCase[i] = c
    THEN LowerCase[CHOOSE i \in 1..Len(UpperCase) : UpperCase[i] = c]
    ELSE c

upper_char(c) ==
    IF \E i \in 1..Len(LowerCase) : LowerCase[i] = c
    THEN UpperCase[CHOOSE i \in 1..Len(LowerCase) : LowerCase[i] = c]
    ELSE c

lower(s) == [i \in 1..Len(s) |-> lower_char(s[i])]
upper(s) == [i \in 1..Len(s) |-> upper_char(s[i])]

RECURSIVE lstrip(_)
lstrip(s) == IF s # << >> /\ IsSpace(Head(s)) THEN lstrip(Tail(s)) ELSE s

RECURSIVE rstrip(_)
rstrip(s) ==
    IF s # << >> /\ IsSpace(s[Len(s)]) THEN rstrip(SubSeq(s, 1, Len(s) - 1)) ELSE s

strip(s) == rstrip(lstrip(s))

startswith(s, p) == Len(p) <= Len(s) /\ SubSeq(s, 1, Len(p)) = p
endswith(s, p) == Len(p) <= Len(s) /\ SubSeq(s, Len(s) - Len(p) + 1, Len(s)) = p

\* str.replace(old, ''): every non-overlapping occurrence, left to right.
RECURSIVE remove(_, _)
remove(s, old) ==
    IF s = << >> THEN << >>
    ELSE IF startswith(s, old) THEN remove(SubSeq(s, Len(old) + 1, Len(s)), old)
    ELSE << Head(s) >> \o remove(Tail(s), old)

(***************************************************************************)
(* normalize_code of the three adapters.                                   *)
(***************************************************************************)
\* As BaoStock_normalize_code, but without lower-casing the input.
BaoStock_normalize_code_NoLower(code) ==
    LET c1 == strip(code) IN
    IF startswith(c1, << "s","h","." >>) \/ startswith(c1, << "s","z","." >>)
    THEN c1
    ELSE LET c2 == remove(remove(c1, << ".","s","h" >>), << ".","s","z" >>) IN
         IF startswith(c2, << "6" >>) THEN << "s","h","." >> \o c2
         ELSE IF startswith(c2, << "0" >>) \/ startswith(c2, << "3" >>)
              THEN << "s","z","." >> \o c2
              ELSE << "s","h","." >> \o c2

BaoStock_normalize_code(code) ==
    LET c1 == lower(strip(code)) IN
    IF startswith(c1, << "s","h","." >>) \/ startswith(c1, << "s","z","." >>)
    THEN c1
    ELSE LET c2 == remove(remove(c1, << ".","s","h" >>), << ".","s","z" >>) IN
         IF startswith(c2, << "6" >>) THEN << "s","h","." >> \o c2
         ELSE IF startswith(c2, << "0" >>) \/ startswith(c2, << "3" >>)
              THEN << "s","z","." >> \o c2
              ELSE << "s","h","." >> \o c2

Tushare_normalize_code(code) ==
    LET c1 == upper(strip(code)) IN
    IF endswith(c1, << ".","S","H" >>) \/ endswith(c1, << ".","S","Z" >>)
    THEN c1
    ELSE LET c2 == remove(remove(remove(remove(c1, << "S","H","." >>),
                                        << "S","Z","." >>),
                                 << "s","h","." >>),
                          << "s","z","." >>) IN
         IF startswith(c2, << "6" >>) THEN c2 \o << ".","S","H" >>
         ELSE IF startswith(c2, << "0" >>) \/ startswith(c2, << "3" >>)
              THEN c2 \o << ".","S","Z" >>
              ELSE c2 \o << ".","S","H" >>

AkShare_extract_code(code) ==
    LET c0 == strip(code)
        c1 == remove(remove(c0, << "s","h","." >>), << "s","z","." >>)
        c2 == remove(remove(c1, << "S","H","." >>), << "S","Z","." >>)
        c3 == remove(remove(c2, << ".","S","H" >>), << ".","S","Z" >>)
        c4 == remove(remove(c3, << ".","s","h" >>), << ".","s","z" >>)
    IN c4

AkShare_normalize_code(code) == AkShare_extract_code(code)

Adapters == {"baostock", "tushare", "akshare"}

normalize_code(a, code) ==
    CASE a = "baostock" -> BaoStock_normalize_code(code)
      [] a = "tushare"  -> Tushare_normalize_code(code)
      [] a = "akshare"  -> AkShare_normalize_code(code)

(***************************************************************************)
(* The inputs of normalize_code: a code of CodeLen digits, written in one  *)
(* of the spellings the adapters accept, with optional whitespace around.  *)
(***************************************************************************)
CodeLen == 2
Digits == {"0", "3", "6", "9"}
Spellings == {"bare", "prefix_lower", "prefix_upper", "suffix_lower", "suffix_upper"}
Markets == {"sh", "sz"}
Pads == {<< >>, << " " >>, << "\t", " " >>}

StockCodes == [1..CodeLen -> Digits]

ImpliedMarket(d) ==
    IF d[1] = "6" THEN "sh" ELSE IF d[1] \in {"0", "3"} THEN "sz" ELSE None

MarketChars(m) == IF m = "sh" THEN << "s","h" >> ELSE << "s","z" >>

Spell(d, sp, m) ==
    CASE sp = "bare"         -> d
      [] sp = "prefix_lower" -> MarketChars(m) \o << "." >> \o d
      [] sp = "prefix_upper" -> upper(MarketChars(m)) \o << "." >> \o d
      [] sp = "suffix_lower" -> d \o << "." >> \o MarketChars(m)
      [] sp = "suffix_upper" -> d \o << "." >> \o upper(MarketChars(m))

InputText(in) == in.padL \o Spell(in.d, in.spelling, in.market) \o in.padR

NoResults == [a \in Adapters |-> << >>]

InitNorm ==
    /\ nc_input \in [d : StockCodes, spelling : Spellings, market : Markets,
                     padL : Pads, padR : Pads]
    /\ nc_result = NoResults

NormalizeCode(a) ==
    /\ nc_result[a] = << >>
    /\ nc_result' = [nc_result EXCEPT ![a] = << normalize_code(a, InputText(nc_input)) >>]
    /\ UNCHANGED nc_input

normVars == << nc_input, nc_result >>
connVars == << cls_instance, heap_count, is_logged_in, refs, n_constructed,
               bs_session, ds_connected, ts_token, ts_api >>
withVars == << with_pc, with_obj, with_exit >>
facVars == << installed, f_call >>
mgrVars == << m_config, m_ds, m_run, m_order, m_with, m_disc >>
callVars == << fh_call, ip_call, cfg_call, mon_call >>
loopVars == << b_run, h_run, callVars >>

(***************************************************************************)
(* The vendor session.  bs.login() and bs.logout() act on one session per  *)
(* process; a call answers error_code '0' ("ok"), another error code       *)
(* ("error"), or raises ("raise").                                         *)
(***************************************************************************)
VendorOutcomes == {"ok", "error", "raise"}

bs_login(session, outcome) == IF outcome = "ok" THEN TRUE ELSE session
bs_logout(session, outcome) == IF outcome = "ok" THEN FALSE ELSE session

(***************************************************************************)
(* BaoStockConnection.  The methods are state transformers: from the       *)
(* object's flag and the vendor session to the new flag, the new session,  *)
(* the returned value and what the vendor was asked.                       *)
(***************************************************************************)
\* As BaoStockConnection_new, but allocating on every call.
BaoStockConnection_new_AlwaysAllocate(inst, heap) ==
    [obj |-> heap + 1, inst |-> heap + 1, heap |-> heap + 1]

BaoStockConnection_new(inst, heap) ==
    IF inst = 0
    THEN [obj |-> heap + 1, inst |-> heap + 1, heap |-> heap + 1]
    ELSE [obj |-> inst, inst |-> inst, heap |-> heap]

login(flag, session, outcome) ==
    IF flag
    THEN [flag |-> flag, session |-> session, ret |-> TRUE, vendor |-> "not_called"]
    ELSE [flag |-> (outcome = "ok"), session |-> bs_login(session, outcome),
          ret |-> (outcome = "ok"), vendor |-> outcome]

logout(flag, session, outcome) ==
    IF ~flag
    THEN [flag |-> flag, session |-> session, ret |-> TRUE, vendor |-> "not_called"]
    ELSE [flag |-> (outcome # "ok"), session |-> bs_logout(session, outcome),
          ret |-> (outcome = "ok"), vendor |-> outcome]

is_connected(self) == is_logged_in[self]

\* __enter__: login(), result ignored, returns self.
BaoStockConnection_enter(flag, session, outcome) == login(flag, session, outcome)

\* As BaoStockConnection_exit, but leaving the session as it is.
BaoStockConnection_exit_NoLogout(flag, session, outcome) ==
    [after |-> [flag |-> flag, session |-> session, ret |-> TRUE,
                vendor |-> "not_called"],
     logout_called |-> FALSE, suppress |-> FALSE]

\* __exit__: logout(), returns None, so an exception of the body is not suppressed.
BaoStockConnection_exit(flag, session, outcome) ==
    [after |-> logout(flag, session, outcome), logout_called |-> TRUE,
     suppress |-> FALSE]

(***************************************************************************)
(* The data source adapters' connect and disconnect.                       *)
(***************************************************************************)
NumDataSources == 2
BaoInstances == {"baostock"} \X (1..NumDataSources)
QueryInstances == {<< "baostock", 1 >>, << "tushare", 1 >>, << "akshare", 1 >>}
Instances == BaoInstances \cup QueryInstances

BaoStockDataSource_connect(flag, session, outcome) ==
    IF flag
    THEN [flag |-> flag, session |-> session, ret |-> TRUE, vendor |-> "not_called"]
    ELSE [flag |-> (outcome = "ok"), session |-> bs_login(session, outcome),
          ret |-> (outcome = "ok"), vendor |-> outcome]

BaoStockDataSource_disconnect(flag, session, outcome) ==
    IF ~flag
    THEN [flag |-> flag, session |-> session, ret |-> TRUE, vendor |-> "not_called"]
    ELSE [flag |-> (outcome # "ok"), session |-> bs_logout(session, outcome),
          ret |-> (outcome = "ok"), vendor |-> outcome]

TushareDataSource_connect(flag, api, token, outcome) ==
    IF flag THEN [flag |-> flag, api |-> api, ret |-> TRUE]
    ELSE IF token /\ outcome # "ok"
         THEN [flag |-> flag, api |-> api, ret |-> FALSE]
         ELSE [flag |-> TRUE, api |-> IF token THEN "pro" ELSE "free", ret |-> TRUE]

TushareDataSource_disconnect(flag, api) ==
    IF ~flag THEN [flag |-> flag, api |-> api, ret |-> TRUE]
    ELSE [flag |-> FALSE, api |-> None, ret |-> TRUE]

AkShareDataSource_connect(flag) == [flag |-> TRUE, ret |-> TRUE]

AkShareDataSource_disconnect(flag) == [flag |-> FALSE, ret |-> TRUE]

\* connect() of the adapter class t.
connect(t, flag, session, api, token, outcome) ==
    CASE t = "baostock" ->
            LET r == BaoStockDataSource_connect(flag, session, outcome) IN
            [flag |-> r.flag, session |-> r.session, api |-> api, ret |-> r.ret]
      [] t = "tushare" ->
            LET r == TushareDataSource_connect(flag, api, token, outcome) IN
            [flag |-> r.flag, session |-> session, api |-> r.api, ret |-> r.ret]
      [] t = "akshare" ->
            LET r == AkShareDataSource_connect(flag) IN
            [flag |-> r.flag, session |-> session, api |-> api, ret |-> r.ret]

\* disconnect() of the adapter class t.
disconnect(t, flag, session, api, outcome) ==
    CASE t = "baostock" ->
            LET r == BaoStockDataSource_disconnect(flag, session, outcome) IN
            [flag |-> r.flag, session |-> r.session, api |-> api, ret |-> r.ret]
      [] t = "tushare" ->
            LET r == TushareDataSource_disconnect(flag, api) IN
            [flag |-> r.flag, session |-> session, api |-> r.api, ret |-> r.ret]
      [] t = "akshare" ->
            LET r == AkShareDataSource_disconnect(flag) IN
            [flag |-> r.flag, session |-> session, api |-> api, ret |-> r.ret]

(***************************************************************************)
(* The adapters' query methods.  A vendor query answers rows ("rows"), an  *)
(* empty table ("empty"), an error code or nothing ("error"), or raises.   *)
(* A query method returns None, an empty DataFrame or a DataFrame.         *)
(***************************************************************************)
CoreMethods == {"query_balance_sheet", "query_cash_flow", "query_income_statement",
                "query_stock_basic", "query_daily_data"}
FundMethods == {"query_fund_basic", "query_fund_holdings", "query_fund_nav",
                "query_institutional_holdings"}
AkShareMethods == {"query_financial_indicator", "query_fund_rank", "query_fund_scale"}
QueryMethods == CoreMethods \cup FundMethods \cup AkShareMethods

VendorQueryOutcomes == {"rows", "empty", "error", "raise"}

\* hasattr(datasource, method)
hasattr(t, method) ==
    method \in CoreMethods \cup FundMethods \/ (t = "akshare" /\ method \in AkShareMethods)

\* The class t defines the method itself; otherwise BaseDataSource's default runs.
Overrides(t, method) ==
    method \in CoreMethods \/ (t = "akshare" /\ method \in FundMethods \cup AkShareMethods)

\* hasattr(self.api, ...) in TushareDataSource: the pro API has every endpoint,
\* the free module only serves query_daily_data (get_k_data).
TushareApiHas(api, method) == api = "pro" \/ method = "query_daily_data"

\* The test at the top of every query method.
NotConnected(t, flag, api) ==
    IF t = "tushare" THEN ~flag \/ api = None ELSE ~flag

_result_to_dataframe(outcome) ==
    CASE outcome = "rows"  -> "DataFrame"
      [] outcome = "empty" -> "empty"
      [] OTHER             -> None

\* As query_method, but without the test of _is_connected.
query_method_NoGuard(t, method, flag, api, outcome) ==
    IF ~Overrides(t, method) THEN [ret |-> None, vendor_called |-> FALSE]
    ELSE IF t = "tushare" /\ ~TushareApiHas(api, method)
         THEN [ret |-> None, vendor_called |-> FALSE]
         ELSE [ret |-> _result_to_dataframe(outcome), vendor_called |-> TRUE]

\* getattr(datasource, method)(...) for an adapter of class t.
query_method(t, method, flag, api, outcome) ==
    IF ~Overrides(t, method) THEN [ret |-> None, vendor_called |-> FALSE]
    ELSE IF NotConnected(t, flag, api) THEN [ret |-> None, vendor_called |-> FALSE]
    ELSE IF t = "tushare" /\ ~TushareApiHas(api, method)
         THEN [ret |-> None, vendor_called |-> FALSE]
         ELSE [ret |-> _result_to_dataframe(outcome), vendor_called |-> TRUE]

(***************************************************************************)
(* BaseQuery.ensure_connection and the query() of BalanceQuery and         *)
(* CashFlowQuery.  kind is the class of self.datasource ("baostock",       *)
(* "tushare", "akshare", or "manager" for a DataSourceManager), or         *)
(* "legacy" when self.datasource is None and self.connection is used.      *)
(***************************************************************************)
ensure_connection(kind, flag, session, api, token, outcome) ==
    CASE kind = "manager" ->
            [ok |-> TRUE, called |-> "none", flag |-> flag, session |-> session,
             api |-> api]
      [] kind = "legacy" ->
            IF ~flag
            THEN LET r == login(flag, session, outcome) IN
                 [ok |-> r.ret, called |-> "login", flag |-> r.flag,
                  session |-> r.session, api |-> api]
            ELSE [ok |-> TRUE, called |-> "none", flag |-> flag,
                  session |-> session, api |-> api]
      [] OTHER ->
            IF ~flag
            THEN LET r == connect(kind, flag, session, api, token, outcome) IN
                 [ok |-> r.ret, called |-> "connect", flag |-> r.flag,
                  session |-> r.session, api |-> r.api]
            ELSE [ok |-> TRUE, called |-> "none", flag |-> flag,
                  session |-> session, api |-> api]

\* As Query_query, but going on to the query when ensure_connection failed.
Query_query_IgnoreEnsure(method, kind, flag, session, api, token, o1, o2) ==
    LET e == ensure_connection(kind, flag, session, api, token, o1) IN
    IF kind = "legacy"
    THEN [ensure |-> e, ret |-> _result_to_dataframe(o2), vendor_called |-> TRUE]
    ELSE LET q == query_method(kind, method, e.flag, e.api, o2) IN
         [ensure |-> e, ret |-> q.ret, vendor_called |-> q.vendor_called]

\* query(code, year, quarter): ensure_connection, then _query_with_datasource
\* or _query_with_baostock; o1 is the vendor's answer to the connect or login,
\* o2 its answer to the query.
Query_query(method, kind, flag, session, api, token, o1, o2) ==
    LET e == ensure_connection(kind, flag, session, api, token, o1) IN
    IF ~e.ok
    THEN [ensure |-> e, ret |-> None, vendor_called |-> FALSE]
    ELSE IF kind = "legacy"
         THEN [ensure |-> e, ret |-> _result_to_dataframe(o2), vendor_called |-> TRUE]
         ELSE LET q == query_method(kind, method, e.flag, e.api, o2) IN
              [ensure |-> e, ret |-> q.ret, vendor_called |-> q.vendor_called]

BalanceQuery_query(kind, flag, session, api, token, o1, o2) ==
    Query_query("query_balance_sheet", kind, flag, session, api, token, o1, o2)

CashFlowQuery_query(kind, flag, session, api, token, o1, o2) ==
    Query_query("query_cash_flow", kind, flag, session, api, token, o1, o2)

QueryClasses == {"BalanceQuery", "CashFlowQuery"}

class_query(cls, kind, flag, session, api, token, o1, o2) ==
    IF cls = "BalanceQuery"
    THEN BalanceQuery_query(kind, flag, session, api, token, o1, o2)
    ELSE CashFlowQuery_query(kind, flag, session, api, token, o1, o2)

(***************************************************************************)
(* DataSourceFactory.  A create call gives an adapter or raises; the       *)
(* result also carries the adapter's state after the automatic connect.    *)
(***************************************************************************)
DataSourceType == {"baostock", "tushare", "akshare", "wind"}
OptionalVendors == {"tushare", "akshare"}

\* DataSourceType(...).value, as characters.
TypeValue(t) ==
    CASE t = "baostock" -> << "b","a","o","s","t","o","c","k" >>
      [] t = "tushare"  -> << "t","u","s","h","a","r","e" >>
      [] t = "akshare"  -> << "a","k","s","h","a","r","e" >>
      [] t = "wind"     -> << "w","i","n","d" >>

\* TUSHARE_AVAILABLE / AKSHARE_AVAILABLE of the adapter modules: the vendor
\* package was imported.
VENDOR_AVAILABLE(t, inst) == t \in inst

\* _TUSHARE_AVAILABLE / _AKSHARE_AVAILABLE of the factory module: importing the
\* adapter module raised no ImportError.  The adapter modules catch the
\* ImportError of their vendor package themselves, so the import succeeds
\* whether or not the package is installed.
ADAPTER_MODULE_AVAILABLE(t, inst) == TRUE

_datasource_classes(inst) ==
    {"baostock"} \cup {t \in OptionalVendors : ADAPTER_MODULE_AVAILABLE(t, inst)}

is_available(t, inst) == t \in _datasource_classes(inst)

\* datasource_class(config): the optional adapters raise ImportError when their
\* vendor package is missing.
constructor_raises(t, inst) == t \in OptionalVendors /\ ~VENDOR_AVAILABLE(t, inst)

Raised(kind, session) ==
    [kind |-> kind, source_type |-> None, flag |-> FALSE, api |-> None,
     session |-> session]

create(t, inst, auto_connect, session, token, outcome) ==
    IF t \notin _datasource_classes(inst) THEN Raised("ValueError", session)
    ELSE IF constructor_raises(t, inst) THEN Raised("ImportError", session)
    ELSE IF auto_connect
         THEN LET c == connect(t, FALSE, session, None, token, outcome) IN
              [kind |-> "adapter", source_type |-> t, flag |-> c.flag,
               api |-> c.api, session |-> c.session]
         ELSE [kind |-> "adapter", source_type |-> t, flag |-> FALSE,
               api |-> None, session |-> session]

\* As create_from_string, but without lower-casing the name.
create_from_string_NoLower(name, inst, auto_connect, session, token, outcome) ==
    LET source_name == strip(name) IN
    IF \E t \in DataSourceType : TypeValue(t) = source_name
    THEN create(CHOOSE t \in DataSourceType : TypeValue(t) = source_name,
                inst, auto_connect, session, token, outcome)
    ELSE Raised("ValueError", session)

create_from_string(name, inst, auto_connect, session, token, outcome) ==
    LET source_name == strip(lower(name)) IN
    IF \E t \in DataSourceType : TypeValue(t) = source_name
    THEN create(CHOOSE t \in DataSourceType : TypeValue(t) = source_name,
                inst, auto_connect, session, token, outcome)
    ELSE Raised("ValueError", session)

\* The names handed to create_from_string: the type values and some others, in
\* lower case, upper case or capitalized, with optional whitespace around.
NameBases ==
    {TypeValue(t) : t \in DataSourceType}
        \cup {<< >>, << "f","o","o" >>, << "b","a","o" >>, << "w","i","n","d","y" >>}
NameCases == {"lower", "upper", "capitalized"}

Cased(b, c) ==
    CASE c = "lower" -> b
      [] c = "upper" -> upper(b)
      [] c = "capitalized" -> IF b = << >> THEN b ELSE << upper_char(b[1]) >> \o Tail(b)

SourceNames == {pl \o Cased(b, c) \o pr : b \in NameBases, c \in NameCases,
                                          pl \in Pads, pr \in Pads}

NoFacCall == [op |-> "none", type |-> None, name |-> << >>, auto_connect |-> FALSE,
              result |-> Raised("none", FALSE)]

InitFactory ==
    /\ installed \in SUBSET OptionalVendors
    /\ f_call = NoFacCall

IdleFactory ==
    /\ installed = OptionalVendors
    /\ f_call = NoFacCall

\* The factory keeps no state between calls (its class map is never changed),
\* so a behaviour makes one call.
Create(t, auto_connect, outcome) ==
    /\ f_call.op = "none"
    /\ LET r == create(t, installed, auto_connect, bs_session, ts_token, outcome) IN
        /\ f_call' = [op |-> "create", type |-> t, name |-> << >>,
                      auto_connect |-> auto_connect, result |-> r]
        /\ bs_session' = r.session
    /\ UNCHANGED << cls_instance, heap_count, is_logged_in, refs, n_constructed,
                    ds_connected, ts_token, ts_api >>
    /\ UNCHANGED << normVars, withVars, last_call, installed, mgrVars, loopVars >>

CreateFromString(name, auto_connect, outcome) ==
    /\ f_call.op = "none"
    /\ LET r == create_from_string(name, installed, auto_connect, bs_session,
                                   ts_token, outcome) IN
        /\ f_call' = [op |-> "create_from_string", type |-> None, name |-> name,
                      auto_connect |-> auto_connect, result |-> r]
        /\ bs_session' = r.session
    /\ UNCHANGED << cls_instance, heap_count, is_logged_in, refs, n_constructed,
                    ds_connected, ts_token, ts_api >>
    /\ UNCHANGED << normVars, withVars, last_call, installed, mgrVars, loopVars >>

(***************************************************************************)
(* DataSourceManager.                                                      *)
(***************************************************************************)
MaxFallbacks == 2

\* default_source of the config: a name, or None when the key is absent.
ConfigDefaults == {None, "baostock", "tushare", "akshare", "wind", "bogus"}
ConfigNames == {"baostock", "tushare", "akshare", "wind", "bogus"}

RECURSIVE SeqsUpTo(_, _)
SeqsUpTo(S, n) ==
    IF n = 0 THEN {<< >>}
    ELSE LET shorter == SeqsUpTo(S, n - 1) IN
         shorter \cup {Append(q, x) : q \in shorter, x \in S}

RECURSIVE available_of(_, _)
available_of(names, inst) ==
    IF names = << >> THEN << >>
    ELSE IF Head(names) \in DataSourceType /\ is_available(Head(names), inst)
         THEN << Head(names) >> \o available_of(Tail(names), inst)
         ELSE available_of(Tail(names), inst)

_parse_config(default_name, fallback_names, inst) ==
    [default |-> IF default_name = None THEN "baostock"
                 ELSE IF default_name \in DataSourceType THEN default_name
                 ELSE "baostock",
     fallbacks |-> available_of(fallback_names, inst)]

NotCreated == [created |-> FALSE, flag |-> FALSE, api |-> None]

\* get_datasource(source_type) with auto_connect: the stored instance, connected
\* again when it is not, or a new one from the factory; found is FALSE for None.
get_datasource(src, rec, inst, session, token, outcome) ==
    IF rec.created
    THEN IF ~rec.flag
         THEN LET c == connect(src, rec.flag, session, rec.api, token, outcome) IN
              [found |-> TRUE, session |-> c.session,
               rec |-> [created |-> TRUE, flag |-> c.flag, api |-> c.api]]
         ELSE [found |-> TRUE, session |-> session, rec |-> rec]
    ELSE LET r == create(src, inst, TRUE, session, token, outcome) IN
         IF r.kind = "adapter"
         THEN [found |-> TRUE, session |-> r.session,
               rec |-> [created |-> TRUE, flag |-> r.flag, api |-> r.api]]
         ELSE [found |-> FALSE, session |-> r.session, rec |-> rec]

\* As sources_to_try, but with the fallback sources ahead of the default one.
sources_to_try_FallbacksFirst(source_type, config) ==
    IF source_type # None THEN << source_type >>
    ELSE config.fallbacks \o << config.default >>

sources_to_try(source_type, config) ==
    IF source_type # None THEN << source_type >>
    ELSE << config.default >> \o config.fallbacks

\* What the call of the method on a data source can do: the vendor's answers,
\* or the call itself raising (arguments the method does not take).
CallOutcomes == VendorQueryOutcomes \cup {"call_raises"}

\* One pass of the loop of query_with_fallback, for src_type.
try_source(src, method, rec, inst, session, token, o1, o2) ==
    LET g == get_datasource(src, rec, inst, session, token, o1) IN
    IF ~g.found
    THEN [outcome |-> "not_created", result |-> None, rec |-> g.rec,
          session |-> g.session]
    ELSE IF ~hasattr(src, method)
    THEN [outcome |-> "no_method", result |-> None, rec |-> g.rec,
          session |-> g.session]
    ELSE IF o2 = "call_raises"
    THEN [outcome |-> "raised", result |-> None, rec |-> g.rec,
          session |-> g.session]
    ELSE LET q == query_method(src, method, g.rec.flag, g.rec.api, o2) IN
         [outcome |-> IF q.ret # None THEN "returned" ELSE "returned_none",
          result |-> q.ret, rec |-> g.rec, session |-> g.session]

NoRun == [pc |-> "idle", method |-> None, source_type |-> None, to_try |-> << >>,
          idx |-> 0, tried |-> << >>, result |-> None]

MgrMethods == {"query_balance_sheet", "query_financial_indicator"}

NoDisc == [op |-> "none", raised |-> FALSE, calls |-> << >>]

InitManager ==
    /\ \E d \in ConfigDefaults, f \in SeqsUpTo(ConfigNames, MaxFallbacks) :
            m_config = _parse_config(d, f, installed)
    /\ m_ds = [t \in DataSourceType |-> NotCreated]
    /\ m_run = NoRun
    /\ m_order = << >>
    /\ m_with = "outside"
    /\ m_disc = NoDisc

\* query_with_fallback(method, source_type=...) builds the list of sources.
QueryWithFallback(method, source_type) ==
    /\ m_run.pc # "loop"
    /\ m_run' = [pc |-> "loop", method |-> method, source_type |-> source_type,
                 to_try |-> sources_to_try(source_type, m_config),
                 idx |-> 1, tried |-> << >>, result |-> None]
    /\ m_disc' = NoDisc
    /\ UNCHANGED << m_config, m_ds, m_order, m_with >>
    /\ UNCHANGED << normVars, connVars, withVars, last_call, facVars, loopVars >>

\* As after_pass, but with no except clause around the pass: an exception of
\* the call ends query_with_fallback.
after_pass_Propagate(run, t, tried) ==
    IF t.outcome = "raised"
    THEN [run EXCEPT !.pc = "raised", !.tried = tried]
    ELSE IF t.outcome = "returned"
    THEN [run EXCEPT !.pc = "done", !.tried = tried, !.result = t.result]
    ELSE IF run.idx = Len(run.to_try)
    THEN [run EXCEPT !.pc = "done", !.tried = tried, !.result = None]
    ELSE [run EXCEPT !.idx = run.idx + 1, !.tried = tried]

\* The end of one pass of the loop: a result that is not None is returned;
\* after a pass that failed (the except clause included) the loop goes on,
\* and None is returned after the last source.
after_pass(run, t, tried) ==
    IF t.outcome = "returned"
    THEN [run EXCEPT !.pc = "done", !.tried = tried, !.result = t.result]
    ELSE IF run.idx = Len(run.to_try)
    THEN [run EXCEPT !.pc = "done", !.tried = tried, !.result = None]
    ELSE [run EXCEPT !.idx = run.idx + 1, !.tried = tried]

\* One pass of the loop: the result is returned when it is not None, None is
\* returned after the last source, and otherwise the loop goes on.
QueryWithFallbackStep(o1, o2) ==
    /\ m_run.pc = "loop"
    /\ LET src == m_run.to_try[m_run.idx]
           t == try_source(src, m_run.method, m_ds[src], installed, bs_session,
                           ts_token, o1, o2)
           tried == Append(m_run.tried, [src |-> src, outcome |-> t.outcome,
                                         result |-> t.result])
       IN
        /\ m_ds' = [m_ds EXCEPT ![src] = t.rec]
        /\ m_order' = IF t.rec.created /\ ~m_ds[src].created
                      THEN Append(m_order, src) ELSE m_order
        /\ bs_session' = t.session
        /\ m_run' = after_pass(m_run, t, tried)
    /\ UNCHANGED << cls_instance, heap_count, is_logged_in, refs, n_constructed,
                    ds_connected, ts_token, ts_api >>
    /\ UNCHANGED << m_config, m_with, m_disc >>
    /\ UNCHANGED << normVars, withVars, last_call, facVars, loopVars >>

set_default_source(t) ==
    /\ m_run.pc # "loop"
    /\ m_config' = IF is_available(t, installed)
                   THEN [m_config EXCEPT !.default = t] ELSE m_config
    /\ m_run' = NoRun
    /\ UNCHANGED << m_ds, m_order, m_with, m_disc >>
    /\ UNCHANGED << normVars, connVars, withVars, last_call, facVars, loopVars >>

add_fallback_source(t) ==
    /\ m_run.pc # "loop"
    /\ Len(m_config.fallbacks) < MaxFallbacks
    /\ m_config' = IF is_available(t, installed)
                      /\ \A i \in 1..Len(m_config.fallbacks) : m_config.fallbacks[i] # t
                   THEN [m_config EXCEPT !.fallbacks = Append(m_config.fallbacks, t)]
                   ELSE m_config
    /\ m_run' = NoRun
    /\ UNCHANGED << m_ds, m_order, m_with, m_disc >>
    /\ UNCHANGED << normVars, connVars, withVars, last_call, facVars, loopVars >>

\* What datasource.disconnect() can do: the vendor's answers to the logout it
\* makes, or the call itself raising.
DisconnectOutcomes == VendorOutcomes \cup {"disconnect_raises"}

\* As disconnect_one, but an exception ends the loop.
disconnect_one_StopAtException(src, rec, session, outcome) ==
    IF outcome = "disconnect_raises"
    THEN [rec |-> rec, session |-> session, go_on |-> FALSE]
    ELSE LET d == disconnect(src, rec.flag, session, rec.api, outcome) IN
         [rec |-> [rec EXCEPT !.flag = d.flag, !.api = d.api],
          session |-> d.session, go_on |-> TRUE]

\* The body of the loop of disconnect_all: disconnect() is called, and an
\* exception it raises is logged.
disconnect_one(src, rec, session, outcome) ==
    IF outcome = "disconnect_raises"
    THEN [rec |-> rec, session |-> session, go_on |-> TRUE]
    ELSE LET d == disconnect(src, rec.flag, session, rec.api, outcome) IN
         [rec |-> [rec EXCEPT !.flag = d.flag, !.api = d.api],
          session |-> d.session, go_on |-> TRUE]

\* disconnect_all over the data sources in order; outcomes gives what the
\* disconnect of each one does.
RECURSIVE disconnect_all(_, _, _, _)
disconnect_all(order, ds, session, outcomes) ==
    IF order = << >>
    THEN [ds |-> ds, session |-> session, calls |-> << >>]
    ELSE LET src == Head(order)
             d == disconnect_one(src, ds[src], session, outcomes[src])
             call == [src |-> src, outcome |-> outcomes[src]]
         IN
         IF d.go_on
         THEN LET rest == disconnect_all(Tail(order), [ds EXCEPT ![src] = d.rec],
                                         d.session, outcomes)
              IN [rest EXCEPT !.calls = << call >> \o rest.calls]
         ELSE [ds |-> [ds EXCEPT ![src] = d.rec], session |-> d.session,
               calls |-> << call >>]

\* What the disconnect of each data source of a manager does, for every set
\* of data sources it can hold; only the BaoStock adapter asks its vendor.
DisconnectChoices ==
    {o \in UNION {[S -> DisconnectOutcomes] : S \in SUBSET Adapters} :
        \A t \in DOMAIN o : t # "baostock" => o[t] \in {"ok", "disconnect_raises"}}

Created == {m_order[i] : i \in 1..Len(m_order)}

\* manager.disconnect_all()
DisconnectAll(outcomes) ==
    /\ m_run.pc # "loop"
    /\ DOMAIN outcomes = Created
    /\ LET r == disconnect_all(m_order, m_ds, bs_session, outcomes) IN
        /\ m_ds' = r.ds
        /\ bs_session' = r.session
        /\ m_disc' = [op |-> "disconnect_all", raised |-> FALSE, calls |-> r.calls]
    /\ m_run' = NoRun
    /\ UNCHANGED << cls_instance, heap_count, is_logged_in, refs, n_constructed,
                    ds_connected, ts_token, ts_api >>
    /\ UNCHANGED << m_config, m_order, m_with >>
    /\ UNCHANGED << normVars, withVars, last_call, facVars, loopVars >>

\* `with manager:` calls __enter__, which returns the manager.
ManagerEnter ==
    /\ m_with = "outside"
    /\ m_run.pc # "loop"
    /\ m_with' = "body"
    /\ UNCHANGED << m_config, m_ds, m_run, m_order, m_disc >>
    /\ UNCHANGED << normVars, connVars, withVars, last_call, facVars, loopVars >>

\* The with block is left, normally or (raised) by an exception of its body:
\* __exit__ calls disconnect_all and returns None.
ManagerExit(raised, outcomes) ==
    /\ m_with = "body"
    /\ m_run.pc # "loop"
    /\ DOMAIN outcomes = Created
    /\ LET r == disconnect_all(m_order, m_ds, bs_session, outcomes) IN
        /\ m_ds' = r.ds
        /\ bs_session' = r.session
        /\ m_disc' = [op |-> "exit", raised |-> raised, calls |-> r.calls]
    /\ m_with' = "exited"
    /\ m_run' = NoRun
    /\ UNCHANGED << cls_instance, heap_count, is_logged_in, refs, n_constructed,
                    ds_connected, ts_token, ts_api >>
    /\ UNCHANGED << m_config, m_order >>
    /\ UNCHANGED << normVars, withVars, last_call, facVars, loopVars >>

IdleManager ==
    /\ m_config = [default |-> "baostock", fallbacks |-> << >>]
    /\ m_ds = [t \in DataSourceType |-> NotCreated]
    /\ m_run = NoRun
    /\ m_order = << >>
    /\ m_with = "outside"
    /\ m_disc = NoDisc

(***************************************************************************)
(* Batch and history loops of the query classes.                           *)
(***************************************************************************)
MaxItems == 3
Codes == {"sh.600000", "sz.000001"}

\* What query_func(item) can do: return a DataFrame with rows, an empty one or
\* None, or raise.
ItemOutcomes == {"DataFrame", "empty", None, "raise"}

EmptyDict == [c \in {} |-> None]

dict_set(d, k, v) == [x \in DOMAIN d \cup {k} |-> IF x = k THEN v ELSE d[x]]

\* As batch_item, but an exception leaves the loop without a result of the item.
batch_item_StopAtException(results, item, outcome) ==
    IF outcome = "raise"
    THEN [results |-> results, go_on |-> FALSE]
    ELSE [results |-> dict_set(results, item, outcome), go_on |-> TRUE]

\* The body of the loop of batch_query for one item: the result of the query
\* function is stored under the item, None when it raised.
batch_item(results, item, outcome) ==
    IF outcome = "raise"
    THEN [results |-> dict_set(results, item, None), go_on |-> TRUE]
    ELSE [results |-> dict_set(results, item, outcome), go_on |-> TRUE]

\* The loop of FundamentalQuery.query_multiple, written out in that class.
query_multiple_item(results, code, outcome) ==
    IF outcome = "raise"
    THEN [results |-> dict_set(results, code, None), go_on |-> TRUE]
    ELSE [results |-> dict_set(results, code, outcome), go_on |-> TRUE]

BatchEntries == {"batch_query", "query_multiple"}

NoBatch == [pc |-> "idle", entry |-> None, items |-> << >>, idx |-> 0,
            calls |-> << >>, results |-> EmptyDict]

\* batch_query(items, query_func) / query_multiple(codes): results = {}.
BatchQuery(entry, items) ==
    /\ b_run.pc = "idle"
    /\ b_run' = [pc |-> IF items = << >> THEN "done" ELSE "loop",
                 entry |-> entry, items |-> items, idx |-> 1,
                 calls |-> << >>, results |-> EmptyDict]
    /\ UNCHANGED << h_run, callVars >>
    /\ UNCHANGED << normVars, connVars, withVars, last_call, facVars, mgrVars >>

\* One pass of the loop; the dict is returned after the last item.
BatchQueryStep(outcome) ==
    /\ b_run.pc = "loop"
    /\ LET item == b_run.items[b_run.idx]
           r == IF b_run.entry = "batch_query"
                THEN batch_item(b_run.results, item, outcome)
                ELSE query_multiple_item(b_run.results, item, outcome)
       IN
        b_run' = [b_run EXCEPT
                    !.calls = Append(b_run.calls, [item |-> item, outcome |-> outcome]),
                    !.results = r.results,
                    !.idx = b_run.idx + 1,
                    !.pc = IF r.go_on /\ b_run.idx < Len(b_run.items)
                           THEN "loop" ELSE "done"]
    /\ UNCHANGED << h_run, callVars >>
    /\ UNCHANGED << normVars, connVars, withVars, last_call, facVars, mgrVars >>

\* Years: main.py asks for 2023; the model takes years from there on.
FirstYear == 2023
YearSpan == 3
Years == FirstYear..(FirstYear + YearSpan)

NoneResult == [kind |-> "None", rows |-> << >>]
DataFrame(rows) == [kind |-> "DataFrame", rows |-> rows]

\* The yearly DataFrame of self.query(code, year=year): one row per report.
YearData(year, ret) ==
    IF ret = "DataFrame" THEN DataFrame(<< year >>)
    ELSE IF ret = "empty" THEN DataFrame(<< >>)
    ELSE NoneResult

\* pd.concat(all_data, ignore_index=True): the rows of the frames, in order.
RECURSIVE concat(_)
concat(all_data) ==
    IF all_data = << >> THEN << >>
    ELSE Head(all_data).rows \o concat(Tail(all_data))

\* As history_result, but a start year after the end year gives an empty frame.
history_range_EmptyWhenReversed(start_year, end_year, now) ==
    LET e == IF end_year = << >> THEN now ELSE end_year[1] IN
    [end_year |-> e, valid |-> TRUE]

\* The head of query_history: the end year defaults to the current year, and
\* the range is refused when it is reversed.
history_range(start_year, end_year, now) ==
    LET e == IF end_year = << >> THEN now ELSE end_year[1] IN
    [end_year |-> e, valid |-> ~(start_year > e)]

history_keep(all_data, df) ==
    IF df.kind # "None" /\ df.rows # << >> THEN Append(all_data, df) ELSE all_data

history_result(all_data) ==
    IF all_data = << >> THEN DataFrame(<< >>) ELSE DataFrame(concat(all_data))

NoHistory == [pc |-> "idle", start_year |-> FirstYear, end_year |-> FirstYear,
              given_end |-> << >>, year |-> FirstYear, calls |-> << >>,
              all_data |-> << >>, result |-> NoneResult]

\* query_history(code, start_year, end_year) up to the loop; end_year is << >>
\* when it is not given, and now is the year of datetime.now().
QueryHistory(start_year, end_year, now) ==
    /\ h_run.pc = "idle"
    /\ LET r == history_range(start_year, end_year, now) IN
        h_run' = [pc |-> IF ~r.valid THEN "done"
                         ELSE IF start_year > r.end_year THEN "done" ELSE "loop",
                  start_year |-> start_year, end_year |-> r.end_year,
                  given_end |-> end_year, year |-> start_year, calls |-> << >>,
                  all_data |-> << >>,
                  result |-> IF ~r.valid THEN NoneResult ELSE history_result(<< >>)]
    /\ UNCHANGED << b_run, callVars >>
    /\ UNCHANGED << normVars, connVars, withVars, last_call, facVars, mgrVars >>

\* One pass of the loop: self.query for the year, through the data source of
\* the query object; the frames are concatenated after the last year.
QueryHistoryStep(i, o1, o2) ==
    /\ h_run.pc = "loop"
    /\ LET r == CashFlowQuery_query(i[1], ds_connected[i], bs_session, ts_api,
                                    ts_token, o1, o2)
           df == YearData(h_run.year, r.ret)
           all_data == history_keep(h_run.all_data, df)
           last == h_run.year = h_run.end_year
       IN
        /\ ds_connected' = [ds_connected EXCEPT ![i] = r.ensure.flag]
        /\ bs_session' = r.ensure.session
        /\ ts_api' = r.ensure.api
        /\ h_run' = [h_run EXCEPT
                        !.calls = Append(h_run.calls, [year |-> h_run.year, df |-> df]),
                        !.all_data = all_data,
                        !.year = h_run.year + 1,
                        !.pc = IF last THEN "done" ELSE "loop",
                        !.result = IF last THEN history_result(all_data)
                                   ELSE h_run.result]
    /\ UNCHANGED << cls_instance, heap_count, is_logged_in, refs, n_constructed,
                    ts_token >>
    /\ UNCHANGED << b_run, callVars >>
    /\ UNCHANGED << normVars, withVars, last_call, facVars, mgrVars >>

(***************************************************************************)
(* AkShareDataSource.query_fund_holdings.  Strings are sequences of        *)
(* characters; "nian", "ji" and "du" stand for the characters of the       *)
(* vendor's quarter text "<year>年<n>季度股票投资明细", and "jidu" for the       *)
(* column name 季度.                                                        *)
(***************************************************************************)
DigitChars == << "0", "1", "2", "3", "4", "5", "6", "7", "8", "9" >>

IsDigit(c) == \E i \in 1..Len(DigitChars) : DigitChars[i] = c

\* str.isdigit()
isdigit(s) == s # << >> /\ \A i \in 1..Len(s) : IsDigit(s[i])

digit_value(c) == (CHOOSE i \in 1..Len(DigitChars) : DigitChars[i] = c) - 1

\* int(s) of a string of digits
RECURSIVE int(_)
int(s) ==
    IF s = << >> THEN 0
    ELSE 10 * int(SubSeq(s, 1, Len(s) - 1)) + digit_value(s[Len(s)])

\* str(n) of a natural number
RECURSIVE str(_)
str(n) ==
    IF n < 10 THEN << DigitChars[n + 1] >>
    ELSE str(n \div 10) \o << DigitChars[(n % 10) + 1] >>

\* sub in s
contains(s, sub) ==
    \E i \in 1..(Len(s) - Len(sub) + 1) : SubSeq(s, i, i + Len(sub) - 1) = sub

\* s.split(sep) for a one-character sep: the parts, in order.
RECURSIVE split(_, _)
split(s, sep) ==
    IF \A i \in 1..Len(s) : s[i] # sep THEN << s >>
    ELSE LET k == CHOOSE i \in 1..Len(s) :
                      s[i] = sep /\ \A j \in 1..(i - 1) : s[j] # sep
         IN << SubSeq(s, 1, k - 1) >> \o split(SubSeq(s, k + 1, Len(s)), sep)

\* The head of query_fund_holdings: target_year and target_quarter of the
\* period (<< >> for None); default_year is str(datetime.now().year - 1).
parse_period(period, default_year) ==
    IF period = << >>
    THEN [target_year |-> default_year, target_quarter |-> << >>]
    ELSE IF contains(upper(period), << "Q" >>)
    THEN LET parts == split(upper(period), "Q") IN
         [target_year |-> parts[1],
          target_quarter |-> IF Len(parts) > 1 /\ isdigit(parts[2])
                             THEN << int(parts[2]) >> ELSE << >>]
    ELSE IF Len(period) = 8
    THEN [target_year |-> SubSeq(period, 1, 4),
          target_quarter |-> << ((int(SubSeq(period, 5, 6)) - 1) \div 3) + 1 >>]
    ELSE [target_year |-> period, target_quarter |-> << >>]

\* The vendor's quarter text of a holding of quarter q of year y.
QuarterCell(y, q) == y \o << "nian" >> \o str(q) \o << "ji", "du", "detail" >>

Quarters == 1..4

\* fund_portfolio_hold_em(symbol, date): the holdings of the year date, here
\* one row for each quarter in present.
RECURSIVE VendorRows(_, _, _)
VendorRows(date, present, q) ==
    IF q > 4 THEN << >>
    ELSE (IF q \in present
          THEN << [year |-> date, quarter |-> q, cell |-> QuarterCell(date, q)] >>
          ELSE << >>) \o VendorRows(date, present, q + 1)

QuarterColumns == << "jidu", "suoshu_jidu", "baogaoqi", "period" >>

\* The first of the quarter column names that the table has, or None.
quarter_col(columns) ==
    IF \E i \in 1..Len(QuarterColumns) : QuarterColumns[i] \in columns
    THEN QuarterColumns[CHOOSE i \in 1..Len(QuarterColumns) :
            /\ QuarterColumns[i] \in columns
            /\ \A j \in 1..(i - 1) : QuarterColumns[j] \notin columns]
    ELSE None

RECURSIVE filter_quarter(_, _)
filter_quarter(rows, pattern) ==
    IF rows = << >> THEN << >>
    ELSE (IF contains(Head(rows).cell, pattern) THEN << Head(rows) >> ELSE << >>)
         \o filter_quarter(Tail(rows), pattern)

FundVendorOutcomes == {"rows", "empty", "key_error", "raise"}

\* query_fund_holdings(fund_code, period) of an AkShare data source whose
\* _is_connected is flag; the vendor answers with the rows of the quarters in
\* present and a table with the given columns.
query_fund_holdings(flag, period, default_year, present, columns, outcome) ==
    IF ~flag THEN [date |-> << >>, frame |-> << >>, result |-> NoneResult]
    ELSE LET p == parse_period(period, default_year)
             df == VendorRows(p.target_year, present, 1)
         IN
         CASE outcome = "raise" ->
                [date |-> p.target_year, frame |-> << >>, result |-> NoneResult]
           [] outcome = "key_error" ->
                [date |-> p.target_year, frame |-> << >>, result |-> DataFrame(<< >>)]
           [] outcome = "empty" \/ df = << >> ->
                [date |-> p.target_year, frame |-> << >>, result |-> DataFrame(<< >>)]
           [] OTHER ->
                [date |-> p.target_year, frame |-> df,
                 result |->
                    IF p.target_quarter # << >> /\ quarter_col(columns) # None
                    THEN DataFrame(filter_quarter(df,
                            p.target_year \o << "nian" >> \o str(p.target_quarter[1])
                                \o << "ji", "du" >>))
                    ELSE DataFrame(df)]

FundYears == {<< "2", "0", "2", "3" >>, << "2", "0", "2", "4" >>}
MonthDays == {<< "0", "1", "3", "1" >>, << "0", "3", "3", "1" >>, << "0", "4", "0", "1" >>,
              << "0", "6", "3", "0" >>, << "0", "9", "3", "0" >>, << "1", "0", "0", "1" >>,
              << "1", "2", "3", "1" >>}
QuarterMarks == {<< "Q", "1" >>, << "Q", "2" >>, << "q", "3" >>, << "Q", "4" >>}

\* The periods of the docstring: none, a year, YYYYQn and YYYYMMDD.
Periods ==
    {<< >>} \cup FundYears
        \cup {y \o m : y \in FundYears, m \in QuarterMarks}
        \cup {y \o d : y \in FundYears, d \in MonthDays}

ColumnSets == {{"jidu"}, {"suoshu_jidu", "period"}, {}}

NoFundCall == [op |-> "none", flag |-> FALSE, period |-> << >>, columns |-> {},
               date |-> << >>, frame |-> << >>, result |-> NoneResult]

QueryFundHoldings(flag, period, default_year, present, columns, outcome) ==
    /\ fh_call.op = "none"
    /\ LET r == query_fund_holdings(flag, period, default_year, present, columns,
                                    outcome) IN
        fh_call' = [op |-> "query_fund_holdings", flag |-> flag, period |-> period,
                    columns |-> columns, date |-> r.date, frame |-> r.frame,
                    result |-> r.result]
    /\ UNCHANGED << ip_call, cfg_call, mon_call >>
    /\ UNCHANGED << b_run, h_run >>
    /\ UNCHANGED << normVars, connVars, withVars, last_call, facVars, mgrVars >>

(***************************************************************************)
(* FundHoldingsQuery.analyze_institutional_preference.  A holdings table   *)
(* is the sequence of the stock codes of its rows.                         *)
(***************************************************************************)
MaxFunds == 2
MaxTopN == 2

Funds == {"000001", "110011"}

\* The stock codes, in the order groupby sorts its keys.
HeldStocks == << "000858", "600519" >>

\* What query_fund_holdings gives for a fund: None, an empty table, or rows;
\* a table for a year has a stock once per quarter it was held in.
Holdings ==
    {NoneResult, DataFrame(<< >>), DataFrame(<< "600519" >>),
     DataFrame(<< "600519", "600519" >>), DataFrame(<< "000858", "600519" >>),
     DataFrame(<< "000858" >>)}

\* The keys of the dict batch_query builds: the items, each at its first place.
RECURSIVE dict_keys(_)
dict_keys(items) ==
    IF items = << >> THEN << >>
    ELSE LET init == dict_keys(SubSeq(items, 1, Len(items) - 1))
             last == items[Len(items)]
         IN IF \E i \in 1..Len(init) : init[i] = last THEN init ELSE Append(init, last)

\* pd.concat of the tables that are neither None nor empty, each row with the
\* code of its fund.
RECURSIVE combined_df(_, _)
combined_df(keys, holdings) ==
    IF keys = << >> THEN << >>
    ELSE LET h == holdings[Head(keys)] IN
         (IF h.kind = "DataFrame" /\ h.rows # << >>
          THEN [i \in 1..Len(h.rows) |-> [fund |-> Head(keys), stock |-> h.rows[i]]]
          ELSE << >>) \o combined_df(Tail(keys), holdings)

\* combined_df.groupby(stock_col).size(): the number of rows of the stock.
groupby_size(combined, stock) ==
    Cardinality({i \in 1..Len(combined) : combined[i].stock = stock})

\* sort_values('持有基金数', ascending=False) of the groups, which groupby gives
\* in key order; rows of equal count stay in that order.
RECURSIVE sort_values(_, _)
sort_values(stocks, combined) ==
    IF stocks = {} THEN << >>
    ELSE LET first == CHOOSE k \in stocks :
                \A j \in stocks \ {k} :
                    \/ groupby_size(combined, HeldStocks[k]) > groupby_size(combined, HeldStocks[j])
                    \/ /\ groupby_size(combined, HeldStocks[k]) = groupby_size(combined, HeldStocks[j])
                       /\ k < j
         IN << [stock |-> HeldStocks[first],
                count |-> groupby_size(combined, HeldStocks[first])] >>
            \o sort_values(stocks \ {first}, combined)

\* DataFrame.head(n)
head(rows, n) == SubSeq(rows, 1, IF n < Len(rows) THEN n ELSE Len(rows))

EmptyResult == [kind |-> "empty", top_holdings |-> << >>]

\* analyze_institutional_preference(fund_codes, period, top_n); connected is
\* what ensure_connection returns and holdings what each fund's query gives.
analyze_institutional_preference(connected, fund_codes, holdings, top_n) ==
    IF ~connected THEN EmptyResult
    ELSE LET combined == combined_df(dict_keys(fund_codes), holdings) IN
         IF combined = << >> THEN EmptyResult
         ELSE LET held == {k \in 1..Len(HeldStocks) :
                              \E i \in 1..Len(combined) : combined[i].stock = HeldStocks[k]}
              IN [kind |-> "dict",
                  top_holdings |-> head(sort_values(held, combined), top_n)]

NoPreference == [op |-> "none", fund_codes |-> << >>,
                 holdings |-> [f \in Funds |-> NoneResult], top_n |-> 0,
                 result |-> EmptyResult]

AnalyzeInstitutionalPreference(connected, fund_codes, holdings, top_n) ==
    /\ ip_call.op = "none"
    /\ ip_call' = [op |-> "analyze", fund_codes |-> fund_codes,
                   holdings |-> holdings, top_n |-> top_n,
                   result |-> analyze_institutional_preference(connected, fund_codes,
                                                               holdings, top_n)]
    /\ UNCHANGED << fh_call, cfg_call, mon_call >>
    /\ UNCHANGED << b_run, h_run >>
    /\ UNCHANGED << normVars, connVars, withVars, last_call, facVars, mgrVars >>

(***************************************************************************)
(* ConfigLoader.  A dict is a function from its keys (strings, as          *)
(* sequences of characters) to values.                                     *)
(***************************************************************************)
MaxEnv == 2

\* As dict_update, but keeping the value of a key the first dict has.
dict_update_KeepEarlier(d, e) ==
    [k \in DOMAIN d \cup DOMAIN e |-> IF k \in DOMAIN d THEN d[k] ELSE e[k]]

\* d.update(e)
dict_update(d, e) ==
    [k \in DOMAIN d \cup DOMAIN e |-> IF k \in DOMAIN e THEN e[k] ELSE d[k]]

\* merge_configs(*configs)
RECURSIVE merge_configs(_)
merge_configs(configs) ==
    IF configs = << >> THEN EmptyDict
    ELSE dict_update(merge_configs(SubSeq(configs, 1, Len(configs) - 1)),
                     configs[Len(configs)])

key_cache == << "c", "a", "c", "h", "e" >>
key_query == << "q", "u", "e", "r", "y" >>
key_token == << "t", "o", "k", "e", "n" >>

\* get_default_config(), two of its keys.
get_default_config == [k \in {key_cache, key_query} |-> "default"]

env_prefix == << "B", "S", "_" >>

\* json.loads(value): the decoded value, or the text itself when it is not JSON.
json_loads_or_text(value) == IF value.json THEN value.decoded ELSE value.text

\* load_from_env(prefix): environ is os.environ.items(), in order.
RECURSIVE load_from_env(_, _)
load_from_env(prefix, environ) ==
    IF environ = << >> THEN EmptyDict
    ELSE LET init == load_from_env(prefix, SubSeq(environ, 1, Len(environ) - 1))
             last == environ[Len(environ)]
         IN IF startswith(last.key, prefix)
            THEN dict_set(init, lower(SubSeq(last.key, Len(prefix) + 1, Len(last.key))),
                          json_loads_or_text(last.value))
            ELSE init

\* load_from_file(config_path): file is "ok" for a file that loads, and any
\* other file (missing, unsupported suffix, broken) gives {}.
load_from_file(file, content) == IF file = "ok" THEN content ELSE EmptyDict

FileStates == {"none", "ok", "missing"}

\* load_config(config_file, use_env, env_prefix)
load_config(file, content, use_env, prefix, environ) ==
    LET c0 == get_default_config
        c1 == IF file # "none"
              THEN merge_configs(<< c0, load_from_file(file, content) >>) ELSE c0
        c2 == IF use_env
              THEN merge_configs(<< c1, load_from_env(prefix, environ) >>) ELSE c1
    IN c2

\* Names of environment variables: with the prefix in two spellings of a key,
\* and one without the prefix.
EnvNames ==
    {env_prefix \o upper(key_cache), env_prefix \o << "C", "a", "c", "h", "e" >>,
     env_prefix \o upper(key_token), << "X", "_" >> \o upper(key_cache)}

EnvValues ==
    {[json |-> TRUE, text |-> "\"akshare\"", decoded |-> "akshare"],
     [json |-> FALSE, text |-> "tushare", decoded |-> None]}

\* os.environ: variables of different names, in order.
Environs ==
    {e \in SeqsUpTo([key : EnvNames, value : EnvValues], MaxEnv) :
        \A i, j \in 1..Len(e) : i # j => e[i].key # e[j].key}

\* The config files: some of the keys, one of them in another spelling.
FileKeys == {key_cache, key_token, << "C", "a", "c", "h", "e" >>}
FileConfigs == UNION {[K -> {"file"}] : K \in SUBSET FileKeys}

\* The dicts handed to merge_configs.
MergeValues == {"first", "second", "third"}
MergeDicts == UNION {[K -> MergeValues] : K \in SUBSET {key_cache, key_query}}

NoConfigCall == [op |-> "none", file |-> "none", content |-> EmptyDict,
                 use_env |-> FALSE, environ |-> << >>, configs |-> << >>,
                 result |-> EmptyDict]

LoadConfig(file, content, use_env, environ) ==
    /\ cfg_call.op = "none"
    /\ cfg_call' = [op |-> "load_config", file |-> file, content |-> content,
                    use_env |-> use_env, environ |-> environ, configs |-> << >>,
                    result |-> load_config(file, content, use_env, env_prefix, environ)]
    /\ UNCHANGED << fh_call, ip_call, mon_call >>
    /\ UNCHANGED << b_run, h_run >>
    /\ UNCHANGED << normVars, connVars, withVars, last_call, facVars, mgrVars >>

MergeConfigs(configs) ==
    /\ cfg_call.op = "none"
    /\ cfg_call' = [op |-> "merge_configs", file |-> "none", content |-> EmptyDict,
                    use_env |-> FALSE, environ |-> << >>, configs |-> configs,
                    result |-> merge_configs(configs)]
    /\ UNCHANGED << fh_call, ip_call, mon_call >>
    /\ UNCHANGED << b_run, h_run >>
    /\ UNCHANGED << normVars, connVars, withVars, last_call, facVars, mgrVars >>

(***************************************************************************)
(* FundPreferenceMonitor.  A ranking table is a sequence of rows, each     *)
(* with the fund's code and the last character of its name.                *)
(***************************************************************************)
\* The methods the class defines.
MonitorMethods ==
    {"get_current_period", "monitor_top_funds", "monitor_fund_holdings_changes",
     "generate_report"}

\* getattr(monitor, name) finds a method.
monitor_hasattr(name) == name \in MonitorMethods

\* periods = [near 3 years, near 2 years, near 1 year]
RankPeriods == << "jin3nian", "jin2nian", "jin1nian" >>

\* The mask of the filter: not (B$|C$|E$|D$|H$), or A$.
keeps_share(last_char) ==
    \/ ~(last_char \in {"B", "C", "E", "D", "H"})
    \/ last_char = "A"

\* fund_rank_df[mask]
filter_share(rows) == SelectSeq(rows, LAMBDA r : keeps_share(r.last_char))

\* period_fund_list: the rows of the filtered table, numbered from 1.
period_fund_list(rank, top_n) ==
    IF rank.kind = "None" \/ rank.rows = << >> THEN << >>
    ELSE LET filtered == head(filter_share(rank.rows), top_n) IN
         [i \in 1..Len(filtered) |->
             [seq |-> i, code |-> filtered[i].code, last_char |-> filtered[i].last_char]]

\* all_fund_codes: the codes of the three lists, one list after the other.
RECURSIVE all_fund_codes(_)
all_fund_codes(lists) ==
    IF lists = << >> THEN << >>
    ELSE [i \in 1..Len(Head(lists)) |-> Head(lists)[i].code]
         \o all_fund_codes(Tail(lists))

\* The top_n the monitor hands to analyze_institutional_preference.
PreferenceTopN == 30

\* monitor_top_funds(top_n); created says whether the manager has a data
\* source, ranks is what query_fund_rank gives for each period.
monitor_top_funds(top_n, created, connected, ranks, holdings) ==
    IF ~created THEN [raised |-> "AttributeError", kind |-> "none"]
    ELSE LET fund_lists_dict ==
                 [k \in 1..Len(RankPeriods) |-> period_fund_list(ranks[k], top_n)]
             unique_fund_codes == dict_keys(all_fund_codes(fund_lists_dict))
             preference_result ==
                 analyze_institutional_preference(connected, unique_fund_codes,
                                                  holdings, PreferenceTopN)
         IN [raised |-> "none", kind |-> "pair",
             top_holdings |->
                 IF unique_fund_codes = << >> THEN << >>
                 ELSE IF preference_result.kind = "dict"
                         /\ preference_result.top_holdings # << >>
                      THEN << preference_result.top_holdings >>
                      ELSE << >>,
             fund_lists_dict |-> fund_lists_dict]

\* monitor.<name>(top_n=top_n) on a monitor just constructed.
monitor_call(name, top_n, created, connected, ranks, holdings) ==
    IF ~monitor_hasattr(name) THEN [raised |-> "AttributeError", kind |-> "none"]
    ELSE monitor_top_funds(top_n, created, connected, ranks, holdings)

\* The names called on the monitor.
MonitorCallNames == {"monitor_top_funds", "monitor_top_funds_by_scale"}

RankTables ==
    {NoneResult, DataFrame(<< >>),
     DataFrame(<< [code |-> "000001", last_char |-> "A"] >>),
     DataFrame(<< [code |-> "000001", last_char |-> "C"],
                  [code |-> "110011", last_char |-> "A"] >>),
     DataFrame(<< [code |-> "110011", last_char |-> "x"],
                  [code |-> "000001", last_char |-> "A"] >>)}

MonitorHoldings ==
    {[f \in Funds |-> NoneResult],
     [f \in Funds |-> DataFrame(<< "600519" >>)],
     [f \in Funds |-> IF f = "000001" THEN DataFrame(<< "000858", "600519" >>)
                      ELSE DataFrame(<< >>)]}

NoMonitorCall == [op |-> "none", top_n |-> 0, result |-> [raised |-> "none", kind |-> "none"]]

MonitorCall(name, top_n, created, connected, ranks, holdings) ==
    /\ mon_call.op = "none"
    /\ mon_call' = [op |-> name, top_n |-> top_n,
                    result |-> monitor_call(name, top_n, created, connected,
                                            ranks, holdings)]
    /\ UNCHANGED << fh_call, ip_call, cfg_call >>
    /\ UNCHANGED << b_run, h_run >>
    /\ UNCHANGED << normVars, connVars, withVars, last_call, facVars, mgrVars >>

IdleCalls ==
    /\ fh_call = NoFundCall
    /\ ip_call = NoPreference
    /\ cfg_call = NoConfigCall
    /\ mon_call = NoMonitorCall

IdleLoops ==
    /\ b_run = NoBatch
    /\ h_run = NoHistory
    /\ IdleCalls

MaxConstructions == 3


NoExit == [raised |-> FALSE, propagated |-> FALSE, logout_called |-> FALSE,
           vendor |-> "not_called"]
NoCall == [op |-> "none", target |-> "none", connected_before |-> FALSE,
           connected_at_query |-> FALSE, ensure |-> "none", ensure_ok |-> TRUE,
           vendor_called |-> FALSE, ret |-> None]

InitConn ==
    /\ cls_instance = 0
    /\ heap_count = 0
    /\ is_logged_in = << >>
    /\ refs = {}
    /\ n_constructed = 0
    /\ bs_session = FALSE
    /\ ds_connected = [i \in Instances |-> FALSE]
    /\ ts_api = None

InitWith ==
    /\ with_pc = "outside"
    /\ with_obj = 0
    /\ with_exit = NoExit

\* BaoStockConnection(): __new__ allocates on the first call only; a new object
\* reads the class attribute _is_logged_in = False.
Construct ==
    /\ n_constructed < MaxConstructions
    /\ LET n == BaoStockConnection_new(cls_instance, heap_count) IN
        /\ cls_instance' = n.inst
        /\ heap_count' = n.heap
        /\ is_logged_in' = IF n.heap > heap_count
                           THEN Append(is_logged_in, FALSE) ELSE is_logged_in
        /\ refs' = refs \cup {n.obj}
    /\ n_constructed' = n_constructed + 1
    /\ UNCHANGED << bs_session, ds_connected, ts_token, ts_api >>
    /\ UNCHANGED << normVars, withVars, last_call, facVars, mgrVars, loopVars >>

Login(self, outcome) ==
    /\ self \in refs
    /\ LET r == login(is_logged_in[self], bs_session, outcome) IN
        /\ is_logged_in' = [is_logged_in EXCEPT ![self] = r.flag]
        /\ bs_session' = r.session
    /\ UNCHANGED << cls_instance, heap_count, refs, n_constructed, ds_connected,
                    ts_token, ts_api >>
    /\ UNCHANGED << normVars, withVars, last_call, facVars, mgrVars, loopVars >>

Logout(self, outcome) ==
    /\ self \in refs
    /\ LET r == logout(is_logged_in[self], bs_session, outcome) IN
        /\ is_logged_in' = [is_logged_in EXCEPT ![self] = r.flag]
        /\ bs_session' = r.session
    /\ UNCHANGED << cls_instance, heap_count, refs, n_constructed, ds_connected,
                    ts_token, ts_api >>
    /\ UNCHANGED << normVars, withVars, last_call, facVars, mgrVars, loopVars >>

Connect(i, outcome) ==
    /\ LET r == connect(i[1], ds_connected[i], bs_session, ts_api, ts_token, outcome) IN
        /\ ds_connected' = [ds_connected EXCEPT ![i] = r.flag]
        /\ bs_session' = r.session
        /\ ts_api' = r.api
    /\ UNCHANGED << cls_instance, heap_count, is_logged_in, refs, n_constructed,
                    ts_token >>
    /\ UNCHANGED << normVars, withVars, last_call, facVars, mgrVars, loopVars >>

Disconnect(i, outcome) ==
    /\ LET r == disconnect(i[1], ds_connected[i], bs_session, ts_api, outcome) IN
        /\ ds_connected' = [ds_connected EXCEPT ![i] = r.flag]
        /\ bs_session' = r.session
        /\ ts_api' = r.api
    /\ UNCHANGED << cls_instance, heap_count, is_logged_in, refs, n_constructed,
                    ts_token >>
    /\ UNCHANGED << normVars, withVars, last_call, facVars, mgrVars, loopVars >>

\* datasource.<method>(...) called on an adapter instance.
AdapterQuery(i, method, outcome) ==
    /\ hasattr(i[1], method)
    /\ LET q == query_method(i[1], method, ds_connected[i], ts_api, outcome) IN
        last_call' = [op |-> "adapter_query", target |-> i[1],
                      connected_before |-> ds_connected[i],
                      connected_at_query |-> ds_connected[i],
                      ensure |-> "none", ensure_ok |-> TRUE,
                      vendor_called |-> q.vendor_called, ret |-> q.ret]
    /\ UNCHANGED << connVars, normVars, withVars, facVars, mgrVars, loopVars >>

\* cls(datasource).query(...) with a single data source instance i.
QueryWithDataSource(cls, i, o1, o2) ==
    /\ LET r == class_query(cls, i[1], ds_connected[i], bs_session, ts_api,
                            ts_token, o1, o2) IN
        /\ ds_connected' = [ds_connected EXCEPT ![i] = r.ensure.flag]
        /\ bs_session' = r.ensure.session
        /\ ts_api' = r.ensure.api
        /\ last_call' = [op |-> "query", target |-> i[1],
                         connected_before |-> ds_connected[i],
                         connected_at_query |-> r.ensure.flag,
                         ensure |-> r.ensure.called, ensure_ok |-> r.ensure.ok,
                         vendor_called |-> r.vendor_called, ret |-> r.ret]
    /\ UNCHANGED << cls_instance, heap_count, is_logged_in, refs, n_constructed,
                    ts_token >>
    /\ UNCHANGED << normVars, withVars, facVars, mgrVars, loopVars >>

\* cls().query(...): BaseQuery.__init__ takes BaoStockConnection() as its
\* connection, and query() logs in through it when needed.
QueryLegacy(cls, o1, o2) ==
    /\ n_constructed < MaxConstructions
    /\ LET n == BaoStockConnection_new(cls_instance, heap_count)
           flags == IF n.heap > heap_count
                    THEN Append(is_logged_in, FALSE) ELSE is_logged_in
           r == class_query(cls, "legacy", flags[n.obj], bs_session, ts_api,
                            ts_token, o1, o2)
       IN
        /\ cls_instance' = n.inst
        /\ heap_count' = n.heap
        /\ refs' = refs \cup {n.obj}
        /\ is_logged_in' = [flags EXCEPT ![n.obj] = r.ensure.flag]
        /\ bs_session' = r.ensure.session
        /\ last_call' = [op |-> "query", target |-> "legacy",
                         connected_before |-> flags[n.obj],
                         connected_at_query |-> r.ensure.flag,
                         ensure |-> r.ensure.called, ensure_ok |-> r.ensure.ok,
                         vendor_called |-> r.vendor_called, ret |-> r.ret]
    /\ n_constructed' = n_constructed + 1
    /\ UNCHANGED << ds_connected, ts_token, ts_api >>
    /\ UNCHANGED << normVars, withVars, facVars, mgrVars, loopVars >>

\* `with BaoStockConnection():` constructs the object and calls __enter__.
WithEnter(outcome) ==
    /\ with_pc # "body"
    /\ n_constructed < MaxConstructions
    /\ LET n == BaoStockConnection_new(cls_instance, heap_count)
           flags == IF n.heap > heap_count
                    THEN Append(is_logged_in, FALSE) ELSE is_logged_in
           r == BaoStockConnection_enter(flags[n.obj], bs_session, outcome)
       IN
        /\ cls_instance' = n.inst
        /\ heap_count' = n.heap
        /\ refs' = refs \cup {n.obj}
        /\ is_logged_in' = [flags EXCEPT ![n.obj] = r.flag]
        /\ bs_session' = r.session
        /\ with_obj' = n.obj
    /\ n_constructed' = n_constructed + 1
    /\ with_pc' = "body"
    /\ UNCHANGED << ds_connected, ts_token, ts_api, with_exit >>
    /\ UNCHANGED << normVars, last_call, facVars, mgrVars, loopVars >>

\* The block is left, normally or by an exception of the body: __exit__ runs,
\* and the exception goes on unless __exit__ returned a true value.
WithExit(raised, outcome) ==
    /\ with_pc = "body"
    /\ LET x == BaoStockConnection_exit(is_logged_in[with_obj], bs_session, outcome) IN
        /\ is_logged_in' = [is_logged_in EXCEPT ![with_obj] = x.after.flag]
        /\ bs_session' = x.after.session
        /\ with_exit' = [raised |-> raised,
                         propagated |-> (raised /\ ~x.suppress),
                         logout_called |-> x.logout_called,
                         vendor |-> x.after.vendor]
    /\ with_pc' = "exited"
    /\ UNCHANGED << cls_instance, heap_count, refs, n_constructed, ds_connected,
                    ts_token, ts_api, with_obj >>
    /\ UNCHANGED << normVars, last_call, facVars, mgrVars, loopVars >>

(***************************************************************************)
(* FundamentalQuery.  Its query asks the data source for the method        *)
(* query_stock_fundamental.                                                *)
(***************************************************************************)
\* FundamentalQuery.query with a single data source of class kind, or with the
\* BaoStockConnection ("legacy"), which has no fundamental data.
FundamentalQuery_query(kind, flag, session, api, token, o1, o2) ==
    LET e == ensure_connection(kind, flag, session, api, token, o1) IN
    IF ~e.ok
    THEN [ensure |-> e, ret |-> None, vendor_called |-> FALSE]
    ELSE IF kind = "legacy"
    THEN [ensure |-> e, ret |-> None, vendor_called |-> FALSE]
    ELSE IF hasattr(kind, "query_stock_fundamental")
    THEN LET q == query_method(kind, "query_stock_fundamental", e.flag, e.api, o2) IN
         [ensure |-> e, ret |-> q.ret, vendor_called |-> q.vendor_called]
    ELSE [ensure |-> e, ret |-> None, vendor_called |-> FALSE]

\* FundamentalQuery(datasource=i).query(code, year)
FundamentalQuerySingle(i, o1, o2) ==
    /\ LET r == FundamentalQuery_query(i[1], ds_connected[i], bs_session, ts_api,
                                       ts_token, o1, o2) IN
        /\ ds_connected' = [ds_connected EXCEPT ![i] = r.ensure.flag]
        /\ bs_session' = r.ensure.session
        /\ ts_api' = r.ensure.api
        /\ last_call' = [op |-> "fundamental", target |-> i[1],
                         connected_before |-> ds_connected[i],
                         connected_at_query |-> r.ensure.flag,
                         ensure |-> r.ensure.called, ensure_ok |-> r.ensure.ok,
                         vendor_called |-> r.vendor_called, ret |-> r.ret]
    /\ UNCHANGED << cls_instance, heap_count, is_logged_in, refs, n_constructed,
                    ts_token >>
    /\ UNCHANGED << normVars, withVars, facVars, mgrVars, loopVars >>

FundamentalSources == {"akshare", "tushare"}

\* FundamentalQuery(datasource=manager).query(code, year): ensure_connection is
\* True for a manager, and the query is the manager's query_with_fallback for
\* query_stock_fundamental, whose loop runs in QueryWithFallbackStep and whose
\* result query returns.
FundamentalQueryManager ==
    QueryWithFallback("query_stock_fundamental", None)

vars == << normVars, connVars, withVars, last_call, facVars, mgrVars, loopVars >>

IdleNorm ==
    /\ nc_input = [d |-> [i \in 1..CodeLen |-> "6"], spelling |-> "bare",
                   market |-> "sh", padL |-> << >>, padR |-> << >>]
    /\ nc_result = NoResults

NextNorm ==
    /\ \E a \in Adapters : NormalizeCode(a)
    /\ UNCHANGED << connVars, withVars, last_call, facVars, mgrVars, loopVars >>

InitSpecNorm ==
    /\ InitNorm /\ InitConn /\ ts_token = FALSE /\ InitWith /\ last_call = NoCall
    /\ IdleFactory /\ IdleManager /\ IdleLoops

SpecNorm == InitSpecNorm /\ [][NextNorm]_vars

Next ==
    \/ Construct
    \/ \E self \in refs, o \in VendorOutcomes : Login(self, o)
    \/ \E self \in refs, o \in VendorOutcomes : Logout(self, o)
    \/ \E i \in BaoInstances, o \in VendorOutcomes : Connect(i, o)
    \/ \E i \in BaoInstances, o \in VendorOutcomes : Disconnect(i, o)
    \/ \E o \in VendorOutcomes : WithEnter(o)
    \/ \E raised \in BOOLEAN, o \in VendorOutcomes : WithExit(raised, o)

NextQuery ==
    \/ Construct
    \/ \E self \in refs, o \in VendorOutcomes : Login(self, o)
    \/ \E self \in refs, o \in VendorOutcomes : Logout(self, o)
    \/ \E i \in QueryInstances, o \in VendorOutcomes : Connect(i, o)
    \/ \E i \in QueryInstances, o \in VendorOutcomes : Disconnect(i, o)
    \/ \E i \in QueryInstances, m \in QueryMethods, o \in VendorQueryOutcomes :
            AdapterQuery(i, m, o)
    \/ \E c \in QueryClasses, i \in QueryInstances, o1 \in VendorOutcomes,
           o2 \in VendorQueryOutcomes : QueryWithDataSource(c, i, o1, o2)
    \/ \E c \in QueryClasses, o1 \in VendorOutcomes, o2 \in VendorQueryOutcomes :
            QueryLegacy(c, o1, o2)

InitQuery ==
    /\ IdleNorm /\ InitConn /\ ts_token \in BOOLEAN /\ InitWith /\ last_call = NoCall
    /\ IdleFactory /\ IdleManager /\ IdleLoops

SpecQuery == InitQuery /\ [][NextQuery]_vars

NextFactory ==
    \/ \E t \in DataSourceType, ac \in BOOLEAN, o \in VendorOutcomes : Create(t, ac, o)
    \/ \E n \in SourceNames, ac \in BOOLEAN, o \in VendorOutcomes :
            CreateFromString(n, ac, o)

InitSpecFactory ==
    /\ IdleNorm /\ InitConn /\ ts_token \in BOOLEAN /\ InitWith /\ last_call = NoCall
    /\ InitFactory /\ IdleManager /\ IdleLoops

SpecFactory == InitSpecFactory /\ [][NextFactory]_vars

NextManager ==
    \/ \E m \in MgrMethods, t \in DataSourceType \cup {None} : QueryWithFallback(m, t)
    \/ \E o1 \in VendorOutcomes, o2 \in CallOutcomes : QueryWithFallbackStep(o1, o2)
    \/ \E t \in DataSourceType : set_default_source(t)
    \/ \E t \in DataSourceType : add_fallback_source(t)

InitSpecManager ==
    /\ IdleNorm /\ InitConn /\ ts_token = TRUE /\ InitWith /\ last_call = NoCall
    /\ InitFactory /\ InitManager /\ IdleLoops

SpecManager == InitSpecManager /\ [][NextManager]_vars

BaoSource == << "baostock", 1 >>

NextBatch ==
    \/ \E e \in BatchEntries, items \in SeqsUpTo(Codes, MaxItems) : BatchQuery(e, items)
    \/ \E o \in ItemOutcomes : BatchQueryStep(o)

InitSpecBatch ==
    /\ IdleNorm /\ InitConn /\ ts_token = FALSE /\ InitWith /\ last_call = NoCall
    /\ IdleFactory /\ IdleManager /\ IdleLoops

SpecBatch == InitSpecBatch /\ [][NextBatch]_vars

NextHistory ==
    \/ \E s \in Years, e \in {<< >>} \cup {<< y >> : y \in Years}, now \in Years :
            QueryHistory(s, e, now)
    \/ \E o1 \in VendorOutcomes, o2 \in VendorQueryOutcomes :
            QueryHistoryStep(BaoSource, o1, o2)

InitSpecHistory ==
    /\ IdleNorm /\ InitConn /\ ts_token = FALSE /\ InitWith /\ last_call = NoCall
    /\ IdleFactory /\ IdleManager /\ IdleLoops

SpecHistory == InitSpecHistory /\ [][NextHistory]_vars

NextDisconnect ==
    \/ \E m \in MgrMethods, t \in DataSourceType \cup {None} : QueryWithFallback(m, t)
    \/ \E o1 \in VendorOutcomes, o2 \in CallOutcomes : QueryWithFallbackStep(o1, o2)
    \/ \E o \in DisconnectChoices : DisconnectAll(o)
    \/ ManagerEnter
    \/ \E raised \in BOOLEAN, o \in DisconnectChoices : ManagerExit(raised, o)

InitSpecDisconnect ==
    /\ IdleNorm /\ InitConn /\ ts_token = TRUE /\ InitWith /\ last_call = NoCall
    /\ InitFactory /\ IdleManager /\ IdleLoops

SpecDisconnect == InitSpecDisconnect /\ [][NextDisconnect]_vars

FundamentalInstances == {<< "tushare", 1 >>, << "akshare", 1 >>}

\* A manager configured with one of the sources of fundamental data, or with
\* the default one, and at most one fallback.
InitManagerFundamental ==
    /\ \E d \in {None, "akshare", "tushare"}, f \in SeqsUpTo({"akshare", "baostock"}, 1) :
            m_config = _parse_config(d, f, installed)
    /\ m_ds = [t \in DataSourceType |-> NotCreated]
    /\ m_run = NoRun
    /\ m_order = << >>
    /\ m_with = "outside"
    /\ m_disc = NoDisc

NextFundamental ==
    \/ \E i \in FundamentalInstances, o \in VendorOutcomes : Connect(i, o)
    \/ \E i \in FundamentalInstances, o \in VendorOutcomes : Disconnect(i, o)
    \/ \E i \in FundamentalInstances, o1 \in VendorOutcomes,
           o2 \in VendorQueryOutcomes : FundamentalQuerySingle(i, o1, o2)
    \/ FundamentalQueryManager
    \/ \E o1 \in VendorOutcomes, o2 \in CallOutcomes : QueryWithFallbackStep(o1, o2)

InitSpecFundamental ==
    /\ IdleNorm /\ InitConn /\ ts_token = TRUE /\ InitWith /\ last_call = NoCall
    /\ InitFactory /\ InitManagerFundamental /\ IdleLoops

SpecFundamental == InitSpecFundamental /\ [][NextFundamental]_vars

NextFundHoldings ==
    \E flag \in BOOLEAN, period \in Periods, default_year \in FundYears,
       present \in SUBSET Quarters, columns \in ColumnSets,
       outcome \in FundVendorOutcomes :
        QueryFundHoldings(flag, period, default_year, present, columns, outcome)

InitSpecFundHoldings ==
    /\ IdleNorm /\ InitConn /\ ts_token = FALSE /\ InitWith /\ last_call = NoCall
    /\ IdleFactory /\ IdleManager /\ IdleLoops

SpecFundHoldings == InitSpecFundHoldings /\ [][NextFundHoldings]_vars

NextPreference ==
    \E connected \in BOOLEAN, fund_codes \in SeqsUpTo(Funds, MaxFunds),
       holdings \in [Funds -> Holdings], top_n \in 0..MaxTopN :
        AnalyzeInstitutionalPreference(connected, fund_codes, holdings, top_n)

InitSpecPreference ==
    /\ IdleNorm /\ InitConn /\ ts_token = FALSE /\ InitWith /\ last_call = NoCall
    /\ IdleFactory /\ IdleManager /\ IdleLoops

SpecPreference == InitSpecPreference /\ [][NextPreference]_vars

NextMonitor ==
    \E name \in MonitorCallNames, top_n \in 1..MaxTopN, created \in BOOLEAN,
       connected \in BOOLEAN, ranks \in [1..Len(RankPeriods) -> RankTables],
       holdings \in MonitorHoldings :
        MonitorCall(name, top_n, created, connected, ranks, holdings)

InitSpecMonitor ==
    /\ IdleNorm /\ InitConn /\ ts_token = FALSE /\ InitWith /\ last_call = NoCall
    /\ IdleFactory /\ IdleManager /\ IdleLoops

SpecMonitor == InitSpecMonitor /\ [][NextMonitor]_vars

NextConfig ==
    \/ \E file \in FileStates, content \in FileConfigs, use_env \in BOOLEAN,
           environ \in Environs : LoadConfig(file, content, use_env, environ)
    \/ \E c1 \in MergeDicts, c2 \in MergeDicts : MergeConfigs(<< c1, c2 >>)

InitSpecConfig ==
    /\ IdleNorm /\ InitConn /\ ts_token = FALSE /\ InitWith /\ last_call = NoCall
    /\ IdleFactory /\ IdleManager /\ IdleLoops

SpecConfig == InitSpecConfig /\ [][NextConfig]_vars

Init ==
    /\ IdleNorm /\ InitConn /\ ts_token = FALSE /\ InitWith /\ last_call = NoCall
    /\ IdleFactory /\ IdleManager /\ IdleLoops

Spec == Init /\ [][Next]_vars

\* The canonical form of code d for each adapter.
Canonical(a, d) ==
    CASE a = "baostock" -> MarketChars(ImpliedMarket(d)) \o << "." >> \o d
      [] a = "tushare"  -> d \o << "." >> \o upper(MarketChars(ImpliedMarket(d)))
      [] a = "akshare"  -> d

\* The input is a recognized spelling of a code whose first digit implies the
\* market that the spelling names.
Recognized(in) ==
    /\ ImpliedMarket(in.d) # None
    /\ in.spelling # "bare" => in.market = ImpliedMarket(in.d)

\* C6: for every recognized spelling of a stock code d (bare, sh./sz. or SH./SZ.
\* prefix, .sh/.sz or .SH/.SZ suffix, optional surrounding whitespace, market
\* implied by the first digit) each adapter's normalize_code returns its single
\* canonical form: BaoStock sh.d / sz.d, Tushare d.SH / d.SZ, AkShare d.
C6_NormalizeCanonical ==
    \A a \in Adapters :
        (Recognized(nc_input) /\ nc_result[a] # << >>)
            => nc_result[a][1] = Canonical(a, nc_input.d)

C6_Witness ==
    /\ Recognized(nc_input)
    /\ nc_input.spelling = "suffix_upper"
    /\ nc_input.padL # << >>
    /\ \A a \in Adapters : nc_result[a] # << >>
    /\ nc_result["baostock"][1] = << "s","z","." >> \o nc_input.d

\* C2: BaoStockConnection is a singleton: every construction returned the same
\* object, so is_connected() observed through any two references agrees.
C2_Singleton ==
    \A r1, r2 \in refs : r1 = r2 /\ is_connected(r1) = is_connected(r2)

C2_Witness ==
    /\ n_constructed >= 2
    /\ \E r \in refs : is_connected(r)

\* C3: whenever BaoStockConnection.is_connected() or a BaoStockDataSource's
\* is_connected() returns true, the vendor's process-wide session is logged in.
C3_ConnectedImpliesSession ==
    /\ \A r \in refs : is_connected(r) => bs_session
    /\ \A i \in BaoInstances : ds_connected[i] => bs_session

\* C4: when the with block is left, normally or by an exception of its body,
\* logout() has been called; if the vendor logout succeeded is_connected() is
\* false right after; and an exception of the body goes on to the caller.
C4_WithExitLogsOut ==
    [][(with_pc = "body" /\ with_pc' = "exited")
        => /\ with_exit'.logout_called
           /\ with_exit'.vendor = "ok" => ~is_logged_in'[with_obj']
           /\ with_exit'.raised => with_exit'.propagated
           /\ with_exit'.propagated => with_exit'.raised]_vars

C4_Witness ==
    /\ with_pc = "exited"
    /\ with_exit.raised /\ with_exit.propagated
    /\ with_exit.vendor = "ok"
    /\ ~is_logged_in[with_obj]

\* C7: a query method of an adapter whose is_connected() is false returns None
\* and makes no vendor call; in any sequence of connect, disconnect and query
\* calls a vendor query function is invoked only while the adapter is connected.
C7_NoVendorCallUnconnected ==
    last_call.op \in {"adapter_query", "query"} /\ last_call.target \in Adapters
        => /\ last_call.vendor_called => last_call.connected_at_query
           /\ (last_call.op = "adapter_query" /\ ~last_call.connected_before)
                => (last_call.ret = None /\ ~last_call.vendor_called)

C7_Witness ==
    /\ last_call.op = "adapter_query"
    /\ last_call.target = "tushare"
    /\ ~last_call.connected_before
    /\ last_call.ret = None
    /\ \E i \in QueryInstances : ds_connected[i]

\* C8: BalanceQuery.query and CashFlowQuery.query first ensure the connection:
\* with a single data source that is not connected they call connect(), with
\* no data source they call BaoStockConnection.login() when not logged in; if
\* that connect or login fails the query returns None without a vendor query.
C8_EnsureConnectionFirst ==
    last_call.op = "query"
        => /\ (last_call.target \in Adapters /\ ~last_call.connected_before)
                => last_call.ensure = "connect"
           /\ (last_call.target = "legacy" /\ ~last_call.connected_before)
                => last_call.ensure = "login"
           /\ last_call.connected_before => last_call.ensure = "none"
           /\ (last_call.ensure # "none" /\ ~last_call.ensure_ok)
                => (last_call.ret = None /\ ~last_call.vendor_called)

C8_Witness ==
    /\ last_call.op = "query"
    /\ last_call.target = "legacy"
    /\ last_call.ensure = "login"
    /\ ~last_call.ensure_ok
    /\ last_call.ret = None

\* The type that a name designates: the one whose value is the name lower-cased
\* and stripped, or None.
Designated(name) ==
    LET n == rstrip(lstrip(lower(name))) IN
    IF \E t \in DataSourceType : TypeValue(t) = n
    THEN CHOOSE t \in DataSourceType : TypeValue(t) = n
    ELSE None

\* What create must give for type t: an adapter of type t, ValueError for WIND,
\* ImportError for an optional vendor whose package is not installed.
ExpectedKind(t) ==
    IF t = "wind" THEN "ValueError"
    ELSE IF t \in OptionalVendors /\ t \notin installed THEN "ImportError"
    ELSE "adapter"

RequestedType ==
    IF f_call.op = "create" THEN f_call.type ELSE Designated(f_call.name)

\* C5 as stated: create(t) returns an adapter of type t when t is registered
\* and raises ValueError when t is WIND or an optional vendor that is not
\* installed; create_from_string(name) behaves as create on the type whose
\* value is name lower-cased and stripped and raises ValueError for every other
\* name; an adapter of another type is never returned.
C5_Original ==
    f_call.op # "none"
        => IF RequestedType = None THEN f_call.result.kind = "ValueError"
           ELSE /\ RequestedType \in _datasource_classes(installed)
                    => (f_call.result.kind = "adapter"
                        /\ f_call.result.source_type = RequestedType)
                /\ (RequestedType = "wind"
                        \/ (RequestedType \in OptionalVendors
                            /\ RequestedType \notin installed))
                    => f_call.result.kind = "ValueError"

\* C5 amended: create(t) returns an adapter of type t when t is BAOSTOCK or an
\* optional vendor whose package is installed, raises ValueError for WIND and
\* ImportError for an optional vendor whose package is not installed;
\* create_from_string(name) behaves as create on the type whose value is name
\* lower-cased and stripped and raises ValueError for every other name; an
\* adapter of another type is never returned.
C5_CreateByType ==
    f_call.op # "none"
        => /\ IF RequestedType = None THEN f_call.result.kind = "ValueError"
              ELSE f_call.result.kind = ExpectedKind(RequestedType)
           /\ f_call.result.kind = "adapter"
                => f_call.result.source_type = RequestedType

C5_Witness ==
    /\ f_call.op = "create_from_string"
    /\ f_call.name = << " ", "T","u","s","h","a","r","e", " " >>
    /\ f_call.result.kind = "adapter"
    /\ f_call.result.source_type = "tushare"
    /\ f_call.result.flag

\* The order the manager is configured with: the default source, then the
\* fallback sources as listed.
ConfiguredOrder == << m_config.default >> \o m_config.fallbacks

\* C1: query_with_fallback called without source_type tries the default source
\* first and then the fallback sources in their configured order; a later
\* source is tried only after every earlier one failed (not created, method
\* missing, None returned, or an exception), and the call returns the result
\* of the first source whose result is not None (an empty DataFrame included),
\* or None once every source has failed.
C1_FallbackOrder ==
    (m_run.pc # "idle" /\ m_run.source_type = None) =>
        LET n == Len(m_run.tried) IN
        /\ n <= Len(ConfiguredOrder)
        /\ \A i \in 1..n : m_run.tried[i].src = ConfiguredOrder[i]
        /\ \A i \in 1..n :
              (m_run.tried[i].result # None) <=> (m_run.tried[i].outcome = "returned")
        /\ \A i \in 1..(n - 1) :
              m_run.tried[i].outcome \in {"not_created", "no_method",
                                          "returned_none", "raised"}
        /\ m_run.pc = "loop" =>
              /\ m_run.idx = n + 1
              /\ \A i \in 1..n : m_run.tried[i].result = None
        /\ m_run.pc = "done" =>
              /\ n >= 1
              /\ IF m_run.tried[n].result # None
                 THEN m_run.result = m_run.tried[n].result
                 ELSE m_run.result = None /\ n = Len(ConfiguredOrder)

\* A call that fell through two failing sources of different kinds and returned
\* the empty DataFrame of the third.
C1_Witness ==
    /\ m_run.pc = "done"
    /\ m_run.source_type = None
    /\ Len(m_run.tried) = 3
    /\ m_run.tried[1].src # m_run.tried[2].src
    /\ m_run.tried[1].outcome = "not_created"
    /\ m_run.tried[2].outcome = "returned_none"
    /\ m_run.tried[3].outcome = "returned"
    /\ m_run.result = "empty"

\* The items of the batch call, as a set.
ItemSet == {b_run.items[i] : i \in 1..Len(b_run.items)}

\* C9: batch_query (and query_multiple) calls the query function once per list
\* element, in list order; the returned dict has exactly the items as keys; an
\* item whose query raised is recorded as None, and the items after it are
\* still queried.
C9_BatchEveryItem ==
    /\ b_run.pc = "loop" =>
          /\ Len(b_run.calls) = b_run.idx - 1
          /\ \A i \in 1..Len(b_run.calls) : b_run.calls[i].item = b_run.items[i]
    /\ b_run.pc = "done" =>
          /\ Len(b_run.calls) = Len(b_run.items)
          /\ \A i \in 1..Len(b_run.items) : b_run.calls[i].item = b_run.items[i]
          /\ DOMAIN b_run.results = ItemSet
          /\ \A i \in 1..Len(b_run.items) :
                (\A j \in (i + 1)..Len(b_run.items) : b_run.items[j] # b_run.items[i])
                => b_run.results[b_run.items[i]] =
                      IF b_run.calls[i].outcome = "raise" THEN None
                      ELSE b_run.calls[i].outcome

\* A finished batch whose first query raised, with later items (one of them
\* listed twice) queried all the same.
C9_Witness ==
    /\ b_run.pc = "done"
    /\ b_run.entry = "batch_query"
    /\ Len(b_run.items) = 3
    /\ b_run.items[1] # b_run.items[2]
    /\ b_run.items[3] = b_run.items[2]
    /\ b_run.calls[1].outcome = "raise"
    /\ b_run.calls[2].outcome = "DataFrame"
    /\ b_run.results[b_run.items[1]] = None

\* The years of the range whose query gave a DataFrame with rows.
YearsWithData ==
    {y \in h_run.start_year..h_run.end_year :
        LET df == h_run.calls[y - h_run.start_year + 1].df IN
        df.kind = "DataFrame" /\ df.rows # << >>}

\* C10: query_history returns None without a query when start_year is after
\* end_year; otherwise every year from start_year to end_year is queried once,
\* in ascending order, and the result holds the rows of the non-empty yearly
\* results in that order, an empty DataFrame when there are none.
C10_HistoryEveryYear ==
    /\ h_run.pc = "loop" =>
          /\ h_run.start_year <= h_run.end_year
          /\ \A i \in 1..Len(h_run.calls) :
                h_run.calls[i].year = h_run.start_year + i - 1
          /\ h_run.year = h_run.start_year + Len(h_run.calls)
          /\ h_run.year <= h_run.end_year
    /\ h_run.pc = "done" =>
          IF h_run.start_year > h_run.end_year
          THEN h_run.result = NoneResult /\ h_run.calls = << >>
          ELSE /\ Len(h_run.calls) = h_run.end_year - h_run.start_year + 1
               /\ \A i \in 1..Len(h_run.calls) :
                     h_run.calls[i].year = h_run.start_year + i - 1
               /\ h_run.result.kind = "DataFrame"
               /\ Len(h_run.result.rows) = Cardinality(YearsWithData)
               /\ \A i \in 1..Len(h_run.result.rows) :
                     h_run.result.rows[i] \in YearsWithData
               /\ \A i, j \in 1..Len(h_run.result.rows) :
                     i < j => h_run.result.rows[i] < h_run.result.rows[j]

\* A finished history over three years up to the current one, the middle year
\* without data.
C10_Witness ==
    /\ h_run.pc = "done"
    /\ h_run.given_end = << >>
    /\ h_run.end_year = h_run.start_year + 2
    /\ Len(h_run.calls) = 3
    /\ h_run.calls[2].df.kind = "None"
    /\ h_run.result = DataFrame(<< h_run.start_year, h_run.end_year >>)

\* The data sources the manager holds.
ManagerCreated == {t \in DataSourceType : m_ds[t].created}

\* Every data source of the manager had its disconnect() called, once.
DisconnectedAll(disc) ==
    /\ {disc.calls[i].src : i \in 1..Len(disc.calls)} = ManagerCreated
    /\ Len(disc.calls) = Cardinality(ManagerCreated)

\* C11: disconnect_all, and leaving the `with DataSourceManager(...)` block
\* normally or by an exception, calls disconnect() on every data source the
\* manager has created, whether or not one of the disconnect calls raises.
C11_DisconnectAllSources ==
    /\ [](m_disc.op # "none" => DisconnectedAll(m_disc))
    /\ [][(m_with = "body" /\ m_with' = "exited")
            => (m_disc'.op = "exit" /\ DisconnectedAll(m_disc)')]_vars

\* A with block left by an exception, with three data sources of which the
\* first one's disconnect raised.
C11_Witness ==
    /\ m_with = "exited"
    /\ m_disc.op = "exit"
    /\ m_disc.raised
    /\ Len(m_disc.calls) = 3
    /\ m_disc.calls[1].outcome = "disconnect_raises"
    /\ m_disc.calls[2].outcome = "ok"

\* C12: FundamentalQuery.query given a connected AkShareDataSource or
\* TushareDataSource, directly or through a DataSourceManager, forwards the
\* request to the data source's fundamental-data query and returns its result.
C12_FundamentalForwarded ==
    /\ (/\ last_call.op = "fundamental"
        /\ last_call.target \in FundamentalSources
        /\ last_call.connected_at_query)
       => last_call.vendor_called
    /\ (/\ m_run.pc = "done"
        /\ m_run.method = "query_stock_fundamental"
        /\ \E i \in 1..Len(m_run.tried) :
              /\ m_run.tried[i].src \in FundamentalSources
              /\ m_ds[m_run.tried[i].src].created
              /\ m_ds[m_run.tried[i].src].flag)
       => \E i \in 1..Len(m_run.tried) :
              m_run.tried[i].outcome \in {"returned", "returned_none", "raised"}

\* The quarter of a year that a period designates, << >> when it names no
\* quarter: the digit after Q, or the quarter of the month of a date.
DesignatedQuarter(period) ==
    IF Len(period) = 6 THEN << digit_value(period[6]) >>
    ELSE IF Len(period) = 8
    THEN LET month == 10 * digit_value(period[5]) + digit_value(period[6]) IN
         << CHOOSE q \in Quarters : 3 * q - 2 <= month /\ month <= 3 * q >>
    ELSE << >>

\* C13: query_fund_holdings with a period that designates a quarter (YYYYQn or
\* YYYYMMDD) returns only rows of that quarter of that year, and with a period
\* that is only a year returns the rows of all quarters of that year.
C13_FundHoldingsQuarter ==
    (fh_call.op = "query_fund_holdings" /\ fh_call.result.kind = "DataFrame"
        /\ fh_call.period # << >>) =>
        LET rows == fh_call.result.rows
            q == DesignatedQuarter(fh_call.period)
        IN
        IF q # << >>
        THEN \A i \in 1..Len(rows) :
                /\ rows[i].quarter = q[1]
                /\ rows[i].year = SubSeq(fh_call.period, 1, 4)
        ELSE rows = fh_call.frame

\* The queried funds whose holdings contain the stock.
FundsHolding(stock) ==
    {f \in {ip_call.fund_codes[i] : i \in 1..Len(ip_call.fund_codes)} :
        /\ ip_call.holdings[f].kind = "DataFrame"
        /\ \E i \in 1..Len(ip_call.holdings[f].rows) : ip_call.holdings[f].rows[i] = stock}

\* C14: in 'top_holdings' the count of a stock is the number of distinct
\* queried funds whose holdings contain it (never more than the number of funds
\* queried), the rows are in descending order of the count, and there are at
\* most top_n of them.
C14_CountsDistinctFunds ==
    (ip_call.op = "analyze" /\ ip_call.result.kind = "dict") =>
        LET top == ip_call.result.top_holdings IN
        /\ Len(top) <= ip_call.top_n
        /\ \A i \in 1..Len(top) :
              /\ top[i].count = Cardinality(FundsHolding(top[i].stock))
              /\ top[i].count <= Len(ip_call.fund_codes)
        /\ \A i, j \in 1..Len(top) : i < j => top[i].count >= top[j].count

\* The places of the environment variables that define the key: the name is
\* the prefix followed by the key in any case.
EnvDefining(k) ==
    {i \in 1..Len(cfg_call.environ) :
        LET name == cfg_call.environ[i].key IN
        /\ Len(name) = Len(env_prefix) + Len(k)
        /\ \A j \in 1..Len(env_prefix) : name[j] = env_prefix[j]
        /\ \A j \in 1..Len(k) : lower_char(name[Len(env_prefix) + j]) = k[j]}

FileDefined == IF cfg_call.file = "ok" THEN DOMAIN cfg_call.content ELSE {}

\* C15: load_config gives every top-level key the value of the environment
\* variable that defines it (when the environment is used), else the file's,
\* else the default; merge_configs gives every key the value of the last dict
\* that has it.
C15_ConfigPriority ==
    /\ cfg_call.op = "load_config" =>
          \A k \in DOMAIN cfg_call.result :
              IF cfg_call.use_env /\ EnvDefining(k) # {}
              THEN LET last == CHOOSE i \in EnvDefining(k) : \A j \in EnvDefining(k) : j <= i
                       v == cfg_call.environ[last].value
                   IN cfg_call.result[k] = IF v.json THEN v.decoded ELSE v.text
              ELSE IF k \in FileDefined THEN cfg_call.result[k] = "file"
              ELSE k \in DOMAIN get_default_config /\ cfg_call.result[k] = "default"
    /\ cfg_call.op = "load_config" =>
          /\ DOMAIN get_default_config \cup FileDefined \subseteq DOMAIN cfg_call.result
          /\ cfg_call.use_env =>
                \A k \in {key_cache, key_token} : EnvDefining(k) # {} => k \in DOMAIN cfg_call.result
    /\ cfg_call.op = "merge_configs" =>
          /\ DOMAIN cfg_call.result =
                UNION {DOMAIN cfg_call.configs[i] : i \in 1..Len(cfg_call.configs)}
          /\ \A k \in DOMAIN cfg_call.result :
                LET has == {i \in 1..Len(cfg_call.configs) : k \in DOMAIN cfg_call.configs[i]}
                    last == CHOOSE i \in has : \A j \in has : j <= i
                IN cfg_call.result[k] = cfg_call.configs[last][k]

\* A load where the environment, the file and the defaults each decide a key:
\* key_cache is set by all three, and two variables spell it differently.
C15_Witness ==
    /\ cfg_call.op = "load_config"
    /\ cfg_call.use_env
    /\ cfg_call.file = "ok"
    /\ key_cache \in DOMAIN cfg_call.content
    /\ key_token \in DOMAIN cfg_call.content
    /\ Cardinality(EnvDefining(key_cache)) = 2
    /\ cfg_call.result[key_cache] = "tushare"
    /\ cfg_call.result[key_token] = "file"
    /\ cfg_call.result[key_query] = "default"

(***************************************************************************)
(* C16: monitor_top_funds_by_scale(top_n), called on a monitor that was    *)
(* just constructed, returns a pair (top_holdings, fund_lists_dict).       *)
(***************************************************************************)
C16_ByScaleReturnsPair ==
    mon_call.op = "monitor_top_funds_by_scale"
        => /\ mon_call.result.raised = "none"
           /\ mon_call.result.kind = "pair"

\* The outcomes of a pass that count as a failure of its source.
FailedOutcomes == {"not_created", "no_method", "returned_none", "raised"}

\* The sources of the passes made so far, in order.
TriedSources == [i \in 1..Len(m_run.tried) |-> m_run.tried[i].src]

(***************************************************************************)
(* C17: query_with_fallback never ends with an exception of a data source  *)
(* or of its creation: each pass ends in one of the five handled outcomes  *)
(* and the call goes on or returns.  It returns None exactly when every    *)
(* source it tried failed (not created, method missing, None returned, or  *)
(* an exception), and then it has tried every source of its list.          *)
(***************************************************************************)
C17_NoExceptionEscapes ==
    /\ m_run.pc \in {"idle", "loop", "done"}
    /\ \A i \in 1..Len(m_run.tried) :
          m_run.tried[i].outcome \in FailedOutcomes \cup {"returned"}
    /\ m_run.pc = "done" =>
          /\ (m_run.result = None)
                <=> \A i \in 1..Len(m_run.tried) :
                       m_run.tried[i].outcome \in FailedOutcomes
          /\ (m_run.result = None)
                => TriedSources = sources_to_try(m_run.source_type, m_config)

\* A call that returned None after one source could not be created and the
\* call on another raised.
C17_Witness ==
    /\ m_run.pc = "done"
    /\ m_run.result = None
    /\ \E i \in 1..Len(m_run.tried) : m_run.tried[i].outcome = "not_created"
    /\ \E i \in 1..Len(m_run.tried) : m_run.tried[i].outcome = "raised"

====
